---- MODULE Spec2Model ----
(***************************************************************************)
(* The development session orchestrator of src/src/index.ts: the session   *)
(* registry, the watch and debounce layer, the single-flight drain loop of *)
(* runDevSessionCycle, the long-task supervisor and the start, status and  *)
(* stop handlers.  JavaScript runs one callback at a time, so every action *)
(* is one run-to-completion segment of the code: from the entry of a       *)
(* callback, or from the completion of an awaited subprocess, up to the    *)
(* next await of a subprocess or the return.                               *)
(***************************************************************************)
EXTENDS Integers, Sequences, FiniteSets, TLC

\* ------------------------------------------------------------------ bounds
\* sync_count is unbounded in the code; the model stops issuing syncs here.
MaxSyncs == 2
\* Launches of the background task.
MaxLaunches == 2
\* pollLongTask calls in flight at once.
MaxPolls == 1
\* Timeout handles that may exist at once (pending, or stale but referenced).
MaxTimers == 2

None == "none"

\* ------------------------------------------------------ strings as tuples
\* A string is a tuple of one-character strings.
Slash == "/"
Backslash == "\\"
Star == "*"

Quote == "'"
DoubleQuote == "\""

\* A quoting that wraps the value and escapes nothing.
shellQuoteBare(value) == <<Quote>> \o value \o <<Quote>>

\* src/src/index.ts:175 shellQuote: the value between single quotes, each
\* single quote of the value written as '"'"'.
shellQuote(value) ==
    LET RECURSIVE Escaped(_)
        Escaped(str) ==
            IF str = << >> THEN << >>
            ELSE (IF Head(str) = Quote
                  THEN <<Quote, DoubleQuote, Quote, DoubleQuote, Quote>>
                  ELSE <<Head(str)>>) \o Escaped(Tail(str))
    IN  <<Quote>> \o Escaped(value) \o <<Quote>>

\* src/src/index.ts:599 normalizeWatchPath: every backslash becomes a slash.
normalizeWatchPath(value) ==
    [i \in 1..Len(value) |-> IF value[i] = Backslash THEN Slash ELSE value[i]]

Includes(str, c) == \E i \in 1..Len(str) : str[i] = c

StartsWith(str, pre) ==
    /\ Len(pre) <= Len(str)
    /\ SubSeq(str, 1, Len(pre)) = pre

IncludesSub(str, sub) ==
    \E i \in 1..(Len(str) - Len(sub) + 1) : SubSeq(str, i, i + Len(sub) - 1) = sub

RECURSIVE StripTrailingSlashes(_)
StripTrailingSlashes(str) ==
    IF Len(str) > 0 /\ str[Len(str)] = Slash
    THEN StripTrailingSlashes(SubSeq(str, 1, Len(str) - 1))
    ELSE str

\* posixPath.basename: the part after the last slash, trailing slashes dropped.
Basename(str) ==
    LET t == StripTrailingSlashes(str)
        cuts == {i \in 1..Len(t) : t[i] = Slash}
        last == IF cuts = {} THEN 0 ELSE CHOOSE i \in cuts : \A j \in cuts : j <= i
    IN  SubSeq(t, last + 1, Len(t))

\* The characters "." of a regular expression built without the s flag does
\* not match.
LineTerminators == {"\n", "\r"}

\* A glob test whose * spans line terminators too.
RECURSIVE WildcardTestDotAll(_, _)
WildcardTestDotAll(pattern, str) ==
    IF pattern = << >> THEN str = << >>
    ELSE IF Head(pattern) = Star
         THEN \E k \in 0..Len(str) :
                  WildcardTestDotAll(Tail(pattern), SubSeq(str, k + 1, Len(str)))
         ELSE /\ str # << >>
              /\ Head(str) = Head(pattern)
              /\ WildcardTestDotAll(Tail(pattern), Tail(str))

\* src/src/index.ts:603 wildcardToRegex, applied: the pattern is anchored at
\* both ends, every * is ".*" (any run of characters other than line
\* terminators) and every other character is escaped to itself.
RECURSIVE WildcardTest(_, _)
WildcardTest(pattern, str) ==
    IF pattern = << >> THEN str = << >>
    ELSE IF Head(pattern) = Star
         THEN \E k \in 0..Len(str) :
                  /\ \A i \in 1..k : str[i] \notin LineTerminators
                  /\ WildcardTest(Tail(pattern), SubSeq(str, k + 1, Len(str)))
         ELSE /\ str # << >>
              /\ Head(str) = Head(pattern)
              /\ WildcardTest(Tail(pattern), Tail(str))

\* src/src/index.ts:613-629: the test of one exclude pattern.
PatternIgnores(normalized, base, pattern) ==
    LET p == normalizeWatchPath(pattern) IN
    IF ~Includes(p, Star)
    THEN IF Includes(p, Slash)
         THEN normalized = p \/ StartsWith(normalized, p \o <<Slash>>)
         ELSE \/ normalized = p
              \/ IncludesSub(normalized, <<Slash>> \o p \o <<Slash>>)
              \/ base = p
    ELSE IF Includes(p, Slash)
         THEN WildcardTest(p, normalized)
         ELSE WildcardTest(p, base)

\* src/src/index.ts:610 shouldIgnorePath
shouldIgnorePath(relativePath, excludePatterns) ==
    LET normalized == normalizeWatchPath(relativePath)
        base == Basename(normalized)
    IN  \E i \in 1..Len(excludePatterns) : PatternIgnores(normalized, base, excludePatterns[i])

\* ------------------------------------------------------------ sync engine
\* What the subprocesses of one sync do and what the local path is: the exit
\* code and output of rsync, the exit codes of the remote mkdir and of scp,
\* and the local path as statSync sees it.
SyncEnvs ==
    { [rsyncExit |-> 0,  rsyncOutput |-> "", mkdirExit |-> 0, scpExit |-> 0,
       local |-> "dir"],
      [rsyncExit |-> 12, rsyncOutput |-> "rsync error: permission denied",
       mkdirExit |-> 0, scpExit |-> 0, local |-> "dir"] }

\* src/src/index.ts:387-393: the outputs whose lower-cased text includes one
\* of the three "unavailable" signatures.
UnavailableOutputs ==
    { "bash: rsync: command not found", "Failed to exec rsync",
      "ssh: remote command not found" }

\* An isRsyncUnavailable that looks at the exit code only.
isRsyncUnavailableByExitCode(result) == result.exitCode = 127

\* src/src/index.ts:386 isRsyncUnavailable
isRsyncUnavailable(result) ==
    result.exitCode = 127 \/ result.output \in UnavailableOutputs

\* resolveScpUploadLocalSources without its directory listing.
resolveScpUploadLocalSourcesAsGiven(local) == <<"local_path">>

\* src/src/index.ts:324 resolveScpUploadLocalSources: the entries of a
\* directory, or the path itself for a file or a path that does not exist.
resolveScpUploadLocalSources(local) ==
    CASE local = "emptydir" -> << >>
      [] local = "dir" -> <<"local_path/a.py">>
      [] OTHER -> <<"local_path">>

\* src/src/index.ts:456-477 and 482-502: the scp path: the remote mkdir,
\* whose result is not looked at, then scp unless there is nothing to copy.
\* Returns the result that counts and the programs run.
ScpUpload(env) ==
    IF Len(resolveScpUploadLocalSources(env.local)) = 0
    THEN [exitCode |-> 0, invoked |-> <<"mkdir">>]
    ELSE [exitCode |-> env.scpExit, invoked |-> <<"mkdir", "scp">>]

\* A sync that tries rsync whatever the method.
UsesRsyncAlways(method) == TRUE

\* src/src/index.ts:430: whether rsync is tried.
UsesRsync(method) == method # "scp"

\* A sync that falls back to scp also when rsync was forced.
FallsBackWhenForced(method, rsyncResult) == isRsyncUnavailable(rsyncResult)

\* src/src/index.ts:455: whether a failed rsync falls back to scp.
FallsBack(method, rsyncResult) == method = "auto" /\ isRsyncUnavailable(rsyncResult)

\* src/src/index.ts:408 performRemoteSync: the result it returns and the
\* programs it ran, in order.  rsync_error is "none" when undefined.
performRemoteSync(method, env) ==
    LET rsyncResult == [exitCode |-> env.rsyncExit, output |-> env.rsyncOutput]
        scp == ScpUpload(env)
    IN  IF UsesRsync(method)
        THEN IF rsyncResult.exitCode = 0
             THEN [ result |-> [success |-> TRUE, method |-> "rsync", exit_code |-> 0,
                                fallback_used |-> FALSE, rsync_error |-> None],
                    invoked |-> <<"rsync">> ]
             ELSE IF FallsBack(method, rsyncResult)
                  THEN [ result |-> [success |-> scp.exitCode = 0, method |-> "scp",
                                     exit_code |-> scp.exitCode, fallback_used |-> TRUE,
                                     rsync_error |-> rsyncResult.output],
                         invoked |-> <<"rsync">> \o scp.invoked ]
                  ELSE [ result |-> [success |-> FALSE, method |-> "rsync",
                                     exit_code |-> rsyncResult.exitCode,
                                     fallback_used |-> FALSE, rsync_error |-> None],
                         invoked |-> <<"rsync">> ]
        ELSE [ result |-> [success |-> scp.exitCode = 0, method |-> "scp",
                           exit_code |-> scp.exitCode, fallback_used |-> FALSE,
                           rsync_error |-> None],
               invoked |-> scp.invoked ]

\* ------------------------------------------------------------------ state
SessionIds == {"s1"}
\* The callers of runDevSessionCycle: the start handler, the debounce timer
\* callback and the status handler (trigger_now).
Invokers == {"start", "timer", "manual"}
\* The pollLongTask calls in flight (made by the start handler, the status
\* handler and the poll interval callback) are numbered.
Pollers == 1..MaxPolls
Handles == 1..MaxTimers
Pids == 1..MaxLaunches

\* File names the watcher may report: a source file, a log file (ignored by
\* the exclude list below) and a file below a directory, reported with a
\* backslash separator.
FileA == <<"a", ".", "p", "y">>
FileLog == <<"r", "u", "n", ".", "l", "o", "g">>
Filenames == {FileA, FileLog}
ExcludeLog == << <<"*", ".", "l", "o", "g">> >>

VARIABLES
    config,        \* "ok" or "bad": whether the server's config entry passes buildSSHBaseArgs
    devSessions,   \* the session map: session id -> DevSession record
    cycles,        \* per session and invoker: where its runDevSessionCycle call is suspended
    polls,         \* per session and poller: where its pollLongTask call is suspended
    stops,         \* per session: the dev_session_stop call in flight (pc "kill" while it
                   \* awaits the kill command) and the arguments of the last call
    timeouts,      \* pending setTimeout callbacks: [h, sid, remaining]
    intervals,     \* sessions whose setInterval poll callback is live
    fsWatchers,    \* per session: the FSWatcher object ("none", "open", "closed", "closed twice")
    remote,        \* the remote host: the live background processes, the number spawned
                   \* and the file each started process writes its output to
    call           \* the last call observed from outside with its outcome, << >> when none

vars == <<config, devSessions, cycles, polls, stops, timeouts, intervals, fsWatchers,
          remote, call>>

IdleCycle == [pc |-> "idle", pid |-> 0]
IdlePoll == [pc |-> "idle", pid |-> 0, log |-> 0, caller |-> "none", cycleThrew |-> FALSE]

Init ==
    /\ config \in {"ok", "bad"}
    /\ devSessions = [sid \in {} |-> 0]
    /\ cycles = [sid \in SessionIds |-> [i \in Invokers |-> IdleCycle]]
    /\ polls = [sid \in SessionIds |-> [p \in Pollers |-> IdlePoll]]
    /\ stops = [sid \in SessionIds |->
                   [pc |-> "idle", pid |-> 0, stop_remote_process |-> FALSE,
                    signal |-> "TERM"]]
    /\ timeouts = {}
    /\ intervals = {}
    /\ fsWatchers = [sid \in SessionIds |-> "none"]
    /\ remote = [alive |-> {}, spawned |-> 0, output |-> << >>]
    /\ call = << >>

\* ------------------------------------------------- session record helpers
\* String.prototype.toLowerCase on the mode and method words a caller may give.
ToLowerCase(word) ==
    CASE word = "LONG" -> "long"
      [] word = "Short" -> "short"
      [] word = "AUTO" -> "auto"
      [] OTHER -> word

\* src/src/index.ts:1971-1997: the DevSession a valid dev_session_start builds.
\* Absent numbers (pid, logFile, debounceTimer) are 0, which the code's
\* truthiness tests treat as absent too; absent records are << >>;
\* lastProcessInfo is -1 while undefined, 0 for an empty listing and the pid
\* a non-empty listing describes; lastTailLog names the log file tailed;
\* lastRunAt, the Date.now() of the last run, is the number of that run, 0
\* while undefined.
NewSession(args) ==
    [ mode |-> ToLowerCase(args.mode), syncMethod |-> ToLowerCase(args.method),
      exclude |-> args.exclude,
      debounceMs |-> args.debounce_ms,
      watcher |-> FALSE, debounceTimer |-> 0, pollingTimer |-> FALSE,
      running |-> FALSE, pending |-> FALSE, stopRequested |-> FALSE,
      status |-> "running", syncCount |-> 0, runCount |-> 0, lastRunAt |-> 0,
      changedPaths |-> {},
      lastError |-> None, lastOperation |-> "session created",
      pid |-> 0, logFile |-> 0,
      lastSyncResult |-> << >>, lastShortRun |-> << >>,
      lastTailLog |-> 0, lastProcessInfo |-> -1, isProcessRunning |-> "undefined" ]

\* An error handler that records the message and leaves the status alone.
markSessionErrorKeepsStatus(s, error) == [s EXCEPT !.lastError = error]

\* src/src/index.ts:669 markSessionError
markSessionError(s, error) == [s EXCEPT !.status = "error", !.lastError = error]

\* A liveness test that trusts the exit code of the lookup alone.
LookupSaysRunningByExit(res) == res.exitCode = 0

\* src/src/index.ts:695 and 729: the liveness a process lookup result gives.
LookupSaysRunning(res) == res.exitCode = 0 /\ res.stdout # 0

Flag(b) == IF b THEN "yes" ELSE "no"

\* The results `ps -p pid` can give: the process listed (only while it is
\* alive), an empty listing with exit 1 (only when it is gone), or the ssh
\* call itself failing or timing out (exit 255, nothing on stdout).
LookupResults(pid) ==
    (IF pid \in remote.alive THEN {[exitCode |-> 0, stdout |-> pid]}
                             ELSE {[exitCode |-> 1, stdout |-> 0]})
    \cup {[exitCode |-> 255, stdout |-> 0]}

\* ------------------------------------------------------ runDevSessionCycle
\* Each operator below returns [s, pc, pid]: the session as the segment
\* leaves it and where the call is suspended next ("idle": it has returned).

\* A catch without the finally block: the running flag is left set.
CycleCatchNoFinally(s, error) ==
    [s |-> markSessionError(s, error), pc |-> "idle", pid |-> 0]

\* src/src/index.ts:794-798: the catch and finally blocks.
CycleCatch(s, error) ==
    [s |-> [markSessionError(s, error) EXCEPT !.running = FALSE], pc |-> "idle", pid |-> 0]

\* The head of an iteration that forgets to clear the pending flag.
IterationStartKeepsPending(s) ==
    LET s1 == [s EXCEPT !.status = "running", !.lastError = None, !.lastOperation = "sync"]
    IN  IF config = "bad"
        THEN CycleCatch(s1, "config")
        ELSE [s |-> s1, pc |-> "sync", pid |-> 0]

\* src/src/index.ts:759-763: the head of one iteration of the drain loop, up
\* to the await in performRemoteSync.  With a config entry that fails
\* buildSSHBaseArgs, performRemoteSync throws before it awaits anything.
IterationStart(s) ==
    LET s1 == [s EXCEPT !.pending = FALSE, !.status = "running", !.lastError = None,
                        !.lastOperation = "sync"]
    IN  IF config = "bad"
        THEN CycleCatch(s1, "config")
        ELSE [s |-> s1, pc |-> "sync", pid |-> 0]

\* A loop condition that does not look at the stop request.
LoopAgainIgnoringStop(s) == s.pending

\* src/src/index.ts:793: the condition of the do-while loop.
LoopAgain(s) == s.pending /\ ~s.stopRequested

\* src/src/index.ts:793-798: the end of an iteration that did not throw.
IterationEnd(s) ==
    IF LoopAgain(s)
    THEN IterationStart(s)
    ELSE [s |-> [s EXCEPT !.running = FALSE], pc |-> "idle", pid |-> 0]

\* A cycle entry without the single-flight test.
NeverAlreadyRunning(s) == FALSE

\* src/src/index.ts:751: the single-flight test.
AlreadyRunning(s) == s.running

\* src/src/index.ts:749: the stop test at the entry of a cycle.
CycleRefused(s) == s.stopRequested

\* src/src/index.ts:748-763: a call of runDevSessionCycle, up to its first
\* await or its return.
CycleEntry(s) ==
    IF CycleRefused(s) THEN [s |-> s, pc |-> "idle", pid |-> 0]
    ELSE IF AlreadyRunning(s)
         THEN [s |-> [s EXCEPT !.pending = TRUE], pc |-> "idle", pid |-> 0]
         ELSE IterationStart([s EXCEPT !.running = TRUE])

\* src/src/index.ts:685-705 maybeStartLongTask, up to its first await: the
\* lookup of the recorded pid, or the launch when none is recorded.
LongTaskEntry(s) ==
    IF s.pid # 0
    THEN [s |-> s, pc |-> "ps", pid |-> s.pid]
    ELSE [s |-> s, pc |-> "launch", pid |-> 0]

\* A cycle that goes on to the command whatever the sync reported.
AfterSyncUnchecked(s, result) ==
    LET s1 == [s EXCEPT !.lastSyncResult = <<result>>, !.syncCount = @ + 1,
                        !.changedPaths = {}]
    IN  IF s1.mode = "short"
        THEN [s |-> [s1 EXCEPT !.lastOperation = "short command run"],
              pc |-> "short", pid |-> 0]
        ELSE LongTaskEntry(s1)

\* src/src/index.ts:771-792: the sync has returned `result`.
AfterSync(s, result) ==
    LET s1 == [s EXCEPT !.lastSyncResult = <<result>>, !.syncCount = @ + 1,
                        !.changedPaths = {}]
    IN  IF ~result.success THEN CycleCatch(s1, "sync failed")
        ELSE IF s1.mode = "short"
             THEN [s |-> [s1 EXCEPT !.lastOperation = "short command run"],
                   pc |-> "short", pid |-> 0]
             ELSE LongTaskEntry(s1)

\* A short run whose nonzero exit code is raised as a failure of the cycle.
AfterShortRunThrows(s, exitCode) ==
    LET s1 == [s EXCEPT !.lastShortRun = <<exitCode>>, !.runCount = @ + 1,
                        !.lastRunAt = s.runCount + 1]
    IN  IF exitCode # 0 THEN CycleCatch(s1, "short command failed") ELSE IterationEnd(s1)

\* A short run that is counted only when the command exits 0.
AfterShortRunCountsSuccess(s, exitCode) ==
    LET s1 == [s EXCEPT !.lastShortRun = <<exitCode>>,
                        !.runCount = IF exitCode = 0 THEN @ + 1 ELSE @,
                        !.lastRunAt = s.runCount + 1,
                        !.lastError = IF exitCode # 0 THEN "short command failed" ELSE @]
    IN  IterationEnd(s1)

\* src/src/index.ts:784-793: the short command has exited with `exitCode`.
AfterShortRun(s, exitCode) ==
    LET s1 == [s EXCEPT !.lastShortRun = <<exitCode>>, !.runCount = @ + 1,
                        !.lastRunAt = s.runCount + 1,
                        !.lastError = IF exitCode # 0 THEN "short command failed" ELSE @]
    IN  IterationEnd(s1)

\* A lookup that counts a run whenever it finds the task alive.
AfterLookupCountsRun(s, res) ==
    LET s1 == [s EXCEPT !.isProcessRunning = Flag(LookupSaysRunning(res)),
                        !.lastProcessInfo = res.stdout]
    IN  IF LookupSaysRunning(res)
        THEN IterationEnd([s1 EXCEPT !.runCount = @ + 1])
        ELSE [s |-> s1, pc |-> "launch", pid |-> 0]

\* src/src/index.ts:695-698: the lookup of the recorded pid has returned.
AfterLookup(s, res) ==
    LET s1 == [s EXCEPT !.isProcessRunning = Flag(LookupSaysRunning(res)),
                        !.lastProcessInfo = res.stdout]
    IN  IF LookupSaysRunning(res)
        THEN IterationEnd(s1)
        ELSE [s |-> s1, pc |-> "launch", pid |-> 0]

\* A launch that always writes to a freshly named log file.
ActualLogFileFresh(s, fresh) == fresh

\* src/src/index.ts:700-702: the log file of a launch: the session's, or a
\* fresh name (numbered by the launch) when none is assigned.
ActualLogFile(s, fresh) == IF s.logFile # 0 THEN s.logFile ELSE fresh

\* A launch that is taken to have succeeded whenever a pid was parsed.
AfterLaunchTrustsPid(s, res, fresh) ==
    IF res.pid = 0
    THEN CycleCatch(s, "failed to start long task")
    ELSE IterationEnd([s EXCEPT !.pid = res.pid, !.logFile = ActualLogFile(s, fresh),
                                !.isProcessRunning = "yes", !.runCount = @ + 1,
                                !.lastRunAt = s.runCount + 1,
                                !.lastOperation = "long task started"])

\* A launch that records the pid and assigns no log file.
AfterLaunchAssignsNoLog(s, res, fresh) ==
    IF res.exitCode # 0 \/ res.pid = 0
    THEN CycleCatch(s, "failed to start long task")
    ELSE IterationEnd([s EXCEPT !.pid = res.pid,
                                !.isProcessRunning = "yes", !.runCount = @ + 1,
                                !.lastRunAt = s.runCount + 1,
                                !.lastOperation = "long task started"])

\* src/src/index.ts:706-717: the launch command has returned `res`
\* ([exitCode, pid]: pid is what parseBackgroundPid reads from its output,
\* 0 when nothing can be parsed).
AfterLaunch(s, res, fresh) ==
    IF res.exitCode # 0 \/ res.pid = 0
    THEN CycleCatch(s, "failed to start long task")
    ELSE IterationEnd([s EXCEPT !.pid = res.pid, !.logFile = ActualLogFile(s, fresh),
                                !.isProcessRunning = "yes", !.runCount = @ + 1,
                                !.lastRunAt = s.runCount + 1,
                                !.lastOperation = "long task started"])

\* ------------------------------------------------------------ pollLongTask
\* src/src/index.ts:733-743: the tail of the log file, when one is assigned.
PollTail(s) ==
    IF s.logFile = 0 THEN [s |-> s, pc |-> "idle", pid |-> 0, log |-> 0]
    ELSE [s |-> s, pc |-> "tail", pid |-> 0, log |-> s.logFile]

\* src/src/index.ts:719-728: a call of pollLongTask, up to its first await.
PollEntry(s) ==
    IF s.mode # "long" THEN [s |-> s, pc |-> "idle", pid |-> 0, log |-> 0]
    ELSE IF s.pid # 0 THEN [s |-> s, pc |-> "ps", pid |-> s.pid, log |-> 0]
    ELSE PollTail(s)

\* A poll that heals: it forgets the pid of a process it finds dead.
PollAfterLookupForgetsDead(s, res) ==
    PollTail([s EXCEPT !.isProcessRunning = Flag(LookupSaysRunning(res)),
                       !.lastProcessInfo = res.stdout,
                       !.pid = IF LookupSaysRunning(res) THEN @ ELSE 0])

\* src/src/index.ts:729-733: the poll's lookup has returned.
PollAfterLookup(s, res) ==
    PollTail([s EXCEPT !.isProcessRunning = Flag(LookupSaysRunning(res)),
                       !.lastProcessInfo = res.stdout])

\* src/src/index.ts:744-745: the tail of log file `log` has returned.
PollAfterTail(s, log) == [s EXCEPT !.lastTailLog = log]

\* ------------------------------------------------------------------ timers
\* clearSessionTimers without its second half: the poll interval stays live.
clearSessionTimersDebounceOnly(sid, s) ==
    [ s |-> [s EXCEPT !.debounceTimer = 0],
      timeouts |-> IF s.debounceTimer # 0
                   THEN {t \in timeouts : t.h # s.debounceTimer}
                   ELSE timeouts,
      intervals |-> intervals ]

\* A clearSessionTimers that cancels the timers of every session.
clearSessionTimersOfAll(sid, s) ==
    [ s |-> [s EXCEPT !.debounceTimer = 0, !.pollingTimer = FALSE],
      timeouts |-> {},
      intervals |-> {} ]

\* src/src/index.ts:674 clearSessionTimers: the session, the pending
\* timeouts and the live intervals as it leaves them.
clearSessionTimers(sid, s) ==
    [ s |-> [s EXCEPT !.debounceTimer = 0, !.pollingTimer = FALSE],
      timeouts |-> IF s.debounceTimer # 0
                   THEN {t \in timeouts : t.h # s.debounceTimer}
                   ELSE timeouts,
      intervals |-> IF s.pollingTimer THEN intervals \ {sid} ELSE intervals ]

\* A schedule that arms a new timer without cancelling the old one.
TimeoutsNotCancelled(s) == timeouts

\* src/src/index.ts:803-805: the timeouts left pending once a schedule has
\* cancelled the timer the session refers to.
TimeoutsAfterCancel(s) ==
    IF s.debounceTimer # 0 THEN {t \in timeouts : t.h # s.debounceTimer} ELSE timeouts

\* The handle setTimeout returns: one that is neither pending nor referred to
\* by another session.
FreeHandles(sid, pending) ==
    {h \in Handles :
        /\ \A t \in pending : t.h # h
        /\ \A o \in DOMAIN devSessions : o # sid => devSessions[o].debounceTimer # h}

MinOf(S) == CHOOSE x \in S : \A y \in S : x <= y

\* src/src/index.ts:801 scheduleDevSessionCycle: the session and the pending
\* timeouts as it leaves them.
scheduleDevSessionCycle(sid, s) ==
    IF s.stopRequested THEN [s |-> s, timeouts |-> timeouts]
    ELSE LET kept == TimeoutsAfterCancel(s)
             h == MinOf(FreeHandles(sid, kept))
         IN  [ s |-> [s EXCEPT !.debounceTimer = h],
               timeouts |-> kept \cup {[h |-> h, sid |-> sid, remaining |-> s.debounceMs]} ]

\* --------------------------------------------------------------- handlers
Thread(r) == [pc |-> r.pc, pid |-> r.pid]
\* A suspended pollLongTask call: where it waits, and who awaits it: the
\* start handler (whose initial cycle ended normally or by an exception) or
\* another caller (the status handler, the poll interval's callback).
PollThread(q, caller, cycleThrew) ==
    IF q.pc = "idle" THEN IdlePoll
    ELSE [pc |-> q.pc, pid |-> q.pid, log |-> q.log, caller |-> caller,
          cycleThrew |-> cycleThrew]

\* The errors with which an iteration of the drain loop throws.
CycleErrors == {"config", "sync failed", "failed to start long task"}

FreeSlots(sid) == {k \in Pollers : polls[sid][k].pc = "idle"}

\* A call of pollLongTask on session s: it returns at once, or is suspended
\* in a free slot.
CallPoll(sid, s, caller, cycleThrew) ==
    LET q == PollEntry(s)
    IN  IF q.pc = "idle" THEN UNCHANGED polls
        ELSE /\ FreeSlots(sid) # {}
             /\ polls' = [polls EXCEPT ![sid][MinOf(FreeSlots(sid))] =
                              PollThread(q, caller, cycleThrew)]

\* A segment of invoker inv's cycle leaves it as r.  When the cycle has
\* returned to the start or status handler, the handler goes on to its
\* pollLongTask call (src/src/index.ts:2012-2014 and 2050-2052).  The bound
\* on sync_count keeps a further sync from being issued.
CycleSegment(sid, inv, r) ==
    /\ r.pc = "sync" => r.s.syncCount < MaxSyncs
    /\ cycles' = [cycles EXCEPT ![sid][inv] = Thread(r)]
    /\ devSessions' = (sid :> r.s) @@ devSessions
    /\ IF r.pc = "idle" /\ inv # "timer"
       THEN IF inv = "start"
            THEN CallPoll(sid, r.s, "start", r.s.lastError \in CycleErrors)
            ELSE CallPoll(sid, r.s, "other", FALSE)
       ELSE UNCHANGED polls

\* Session names a caller may give: a plain one, one with a space, an empty one.
NameDev == <<"d", "e", "v", "-", "1">>
NameSpaced == <<"m", "y", " ", "a", "p", "p">>
NameEmpty == << >>

\* src/src/index.ts:588: the characters of /^[A-Za-z0-9._-]+$/
SessionNameChars ==
    { "a", "b", "c", "d", "e", "f", "g", "h", "i", "j", "k", "l", "m",
      "n", "o", "p", "q", "r", "s", "t", "u", "v", "w", "x", "y", "z",
      "A", "B", "C", "D", "E", "F", "G", "H", "I", "J", "K", "L", "M",
      "N", "O", "P", "Q", "R", "S", "T", "U", "V", "W", "X", "Y", "Z",
      "0", "1", "2", "3", "4", "5", "6", "7", "8", "9", ".", "_", "-" }

\* src/src/index.ts:586 assertSessionName: whether it accepts the name.
SessionNameValid(name) ==
    /\ \E i \in 1..Len(name) : name[i] # " "
    /\ \A i \in 1..Len(name) : name[i] \in SessionNameChars

\* src/src/index.ts:158 assertDevSessionMode: whether it accepts the mode.
ModeValid(mode) == mode # "" /\ ToLowerCase(mode) \in {"short", "long"}

\* src/src/index.ts:68 SAFE_SYNC_METHOD_SET and 150 assertSyncMethod
SyncMethodValid(method) == method # "" /\ ToLowerCase(method) \in {"auto", "rsync", "scp"}

\* src/src/index.ts:109 assertPositiveInt
PositiveInt(value) == value > 0

\* A validation of dev_session_start that accepts any session name.
StartArgsValidAnyName(args) ==
    /\ ModeValid(args.mode)
    /\ SyncMethodValid(args.method)
    /\ PositiveInt(args.debounce_ms)
    /\ IF ToLowerCase(args.mode) = "short" THEN args.short_command # ""
                                           ELSE args.long_command # ""

\* src/src/index.ts:1933-1968: the validation of dev_session_start ("" is a
\* command that was not given).
StartArgsValid(args) ==
    /\ SessionNameValid(args.session_name)
    /\ ModeValid(args.mode)
    /\ SyncMethodValid(args.method)
    /\ PositiveInt(args.debounce_ms)
    /\ IF ToLowerCase(args.mode) = "short" THEN args.short_command # ""
                                           ELSE args.long_command # ""

StartArgs ==
    [ session_name : {NameDev}, mode : {"short", "long"}, method : {"auto"},
      exclude : {ExcludeLog}, debounce_ms : {2},
      short_command : {"make test"}, long_command : {"make serve"},
      local_path_exists : BOOLEAN ]

\* src/src/index.ts:1898-2034 dev_session_start, up to the first await of
\* its initial cycle.  watch() throws when the local path does not exist.
Start(sid, args) ==
    /\ sid \notin DOMAIN devSessions
    /\ StartArgsValid(args)
    /\ IF ~args.local_path_exists
       THEN /\ devSessions' = (sid :> markSessionError(NewSession(args), "watch failed"))
                              @@ devSessions
            /\ UNCHANGED <<cycles, polls, intervals, fsWatchers>>
       ELSE LET s1 == [NewSession(args) EXCEPT !.watcher = TRUE,
                                               !.pollingTimer = (ToLowerCase(args.mode) = "long")]
            IN  /\ fsWatchers' = [fsWatchers EXCEPT ![sid] = "open"]
                /\ intervals' = IF s1.mode = "long" THEN intervals \cup {sid} ELSE intervals
                /\ CycleSegment(sid, "start", CycleEntry(s1))
    /\ UNCHANGED <<config, stops, timeouts, remote>>

\* A watcher callback that does not consult the exclude list.
WatchCallbackNoExclude(sid, filename) ==
    /\ sid \in DOMAIN devSessions
    /\ fsWatchers[sid] # "none"
    /\ LET s == devSessions[sid]
           changed == normalizeWatchPath(filename)
           s1 == IF filename = << >> THEN s
                 ELSE [s EXCEPT !.changedPaths = @ \cup {changed}]
       IN  IF s.stopRequested
           THEN UNCHANGED <<devSessions, timeouts>>
           ELSE /\ FreeHandles(sid, TimeoutsAfterCancel(s1)) # {}
                /\ LET r == scheduleDevSessionCycle(sid, s1)
                   IN  /\ devSessions' = [devSessions EXCEPT ![sid] = r.s]
                       /\ timeouts' = r.timeouts
    /\ UNCHANGED <<config, cycles, polls, stops, intervals, fsWatchers, remote>>

\* src/src/index.ts:815-825: the watcher's callback, which returns at once on
\* a stopped session and on an ignored path.  filename << >> is an event
\* without a file name.
WatchCallback(sid, filename) ==
    /\ sid \in DOMAIN devSessions
    /\ fsWatchers[sid] # "none"
    /\ LET s == devSessions[sid]
           changed == normalizeWatchPath(filename)
           ignored == filename # << >> /\ shouldIgnorePath(changed, s.exclude)
           s1 == IF filename = << >> THEN s
                 ELSE [s EXCEPT !.changedPaths = @ \cup {changed}]
       IN  IF s.stopRequested \/ ignored
           THEN UNCHANGED <<devSessions, timeouts>>
           ELSE /\ FreeHandles(sid, TimeoutsAfterCancel(s1)) # {}
                /\ LET r == scheduleDevSessionCycle(sid, s1)
                   IN  /\ devSessions' = [devSessions EXCEPT ![sid] = r.s]
                       /\ timeouts' = r.timeouts
    /\ UNCHANGED <<config, cycles, polls, stops, intervals, fsWatchers, remote>>

WatchEvent(sid, filename) == WatchCallback(sid, filename) /\ UNCHANGED call

\* src/src/index.ts:828-830: the watcher reports an error.
WatcherError(sid) ==
    /\ sid \in DOMAIN devSessions
    /\ fsWatchers[sid] = "open"
    /\ devSessions' = [devSessions EXCEPT ![sid] = markSessionError(@, "watcher error")]
    /\ UNCHANGED <<config, call, cycles, polls, stops, timeouts, intervals, fsWatchers, remote>>

\* Time passes by one tick; a timeout that is due fires before the next tick.
Tick ==
    /\ \A t \in timeouts : t.remaining > 0
    /\ timeouts # {}
    /\ timeouts' = {[t EXCEPT !.remaining = @ - 1] : t \in timeouts}
    /\ UNCHANGED <<config, call, devSessions, cycles, polls, stops, intervals, fsWatchers, remote>>

\* src/src/index.ts:806-808: a debounce timeout fires and calls
\* runDevSessionCycle.
DebounceFire(sid) ==
    \E t \in timeouts :
        /\ t.sid = sid
        /\ t.remaining = 0
        /\ timeouts' = timeouts \ {t}
        /\ LET r == CycleEntry(devSessions[sid])
           IN  IF r.pc = "idle"
               THEN /\ devSessions' = [devSessions EXCEPT ![sid] = r.s]
                    /\ UNCHANGED <<cycles, polls>>
               ELSE /\ cycles[sid]["timer"].pc = "idle"
                    /\ CycleSegment(sid, "timer", r)
        /\ UNCHANGED <<config, call, stops, intervals, fsWatchers, remote>>

\* src/src/index.ts:763-792: the sync awaited by invoker inv's cycle returns.
SyncDone(sid, inv) ==
    /\ sid \in DOMAIN devSessions
    /\ cycles[sid][inv].pc = "sync"
    /\ \E env \in SyncEnvs :
          CycleSegment(sid, inv,
                       AfterSync(devSessions[sid],
                                 performRemoteSync(devSessions[sid].syncMethod, env).result))
    /\ UNCHANGED <<config, call, stops, timeouts, intervals, fsWatchers, remote>>

\* src/src/index.ts:783-793: the short command returns.
ShortRunDone(sid, inv) ==
    /\ sid \in DOMAIN devSessions
    /\ cycles[sid][inv].pc = "short"
    /\ \E exitCode \in {0, 1} :
          CycleSegment(sid, inv, AfterShortRun(devSessions[sid], exitCode))
    /\ UNCHANGED <<config, call, stops, timeouts, intervals, fsWatchers, remote>>

\* src/src/index.ts:689-698: the lookup made by maybeStartLongTask returns.
CycleLookupDone(sid, inv) ==
    /\ sid \in DOMAIN devSessions
    /\ cycles[sid][inv].pc = "ps"
    /\ \E res \in LookupResults(cycles[sid][inv].pid) :
          CycleSegment(sid, inv, AfterLookup(devSessions[sid], res))
    /\ UNCHANGED <<config, call, stops, timeouts, intervals, fsWatchers, remote>>

\* src/src/index.ts:705-717: the launch command returns: either the remote
\* shell started the process and printed its pid, or the call failed and
\* nothing was started.
LaunchDone(sid, inv) ==
    /\ sid \in DOMAIN devSessions
    /\ cycles[sid][inv].pc = "launch"
    /\ remote.spawned < MaxLaunches
    /\ LET fresh == remote.spawned + 1
       IN  \/ /\ remote' = [alive |-> remote.alive \cup {fresh}, spawned |-> fresh,
                             output |-> (fresh :> ActualLogFile(devSessions[sid], fresh))
                                            @@ remote.output]
              /\ CycleSegment(sid, inv,
                              AfterLaunch(devSessions[sid], [exitCode |-> 0, pid |-> fresh], fresh))
           \/ /\ remote' = [remote EXCEPT !.spawned = fresh]
              /\ CycleSegment(sid, inv,
                              AfterLaunch(devSessions[sid], [exitCode |-> 255, pid |-> 0], fresh))
    /\ UNCHANGED <<config, call, stops, timeouts, intervals, fsWatchers>>

\* A background process exits on its own.
ProcessExit(pid) ==
    /\ pid \in remote.alive
    /\ remote' = [remote EXCEPT !.alive = @ \ {pid}]
    /\ UNCHANGED <<config, call, devSessions, cycles, polls, stops, timeouts, intervals,
                   fsWatchers>>

\* src/src/index.ts:2003-2008: the poll interval fires.
PollTick(sid) ==
    /\ sid \in intervals
    /\ ~devSessions[sid].stopRequested
    /\ CallPoll(sid, devSessions[sid], "other", FALSE)
    /\ UNCHANGED <<config, call, devSessions, cycles, stops, timeouts, intervals, fsWatchers,
                   remote>>

\* src/src/index.ts:723-733: a poll's lookup returns.
PollLookupDone(sid, who) ==
    /\ sid \in DOMAIN devSessions
    /\ polls[sid][who].pc = "ps"
    /\ \E res \in LookupResults(polls[sid][who].pid) :
          LET q == PollAfterLookup(devSessions[sid], res)
          IN  /\ devSessions' = [devSessions EXCEPT ![sid] = q.s]
              /\ polls' = [polls EXCEPT ![sid][who] =
                               PollThread(q, polls[sid][who].caller,
                                          polls[sid][who].cycleThrew)]
    /\ UNCHANGED <<config, call, cycles, stops, timeouts, intervals, fsWatchers, remote>>

\* src/src/index.ts:743-745: a poll's tail returns.
PollTailDone(sid, who) ==
    /\ sid \in DOMAIN devSessions
    /\ polls[sid][who].pc = "tail"
    /\ devSessions' = [devSessions EXCEPT ![sid] = PollAfterTail(@, polls[sid][who].log)]
    /\ polls' = [polls EXCEPT ![sid][who] = IdlePoll]
    /\ UNCHANGED <<config, call, cycles, stops, timeouts, intervals, fsWatchers, remote>>

\* src/src/index.ts:2036-2069 dev_session_status, up to its first await.  One
\* status call awaits its cycle at a time.
Status(sid, trigger_now) ==
    /\ sid \in DOMAIN devSessions
    /\ cycles[sid]["manual"].pc = "idle"
    /\ IF trigger_now
       THEN CycleSegment(sid, "manual", CycleEntry(devSessions[sid]))
       ELSE /\ CallPoll(sid, devSessions[sid], "other", FALSE)
            /\ UNCHANGED <<devSessions, cycles>>
    /\ UNCHANGED <<config, call, stops, timeouts, intervals, fsWatchers, remote>>

\* src/src/index.ts:67 SAFE_SIGNAL_SET and 142 assertSignal
SignalValid(signal) == signal \in {"TERM", "KILL", "INT", "HUP"}

\* A stop that kills whenever it is asked to, whatever the session's mode and pid.
KillWheneverAsked(s, stop_remote_process) == stop_remote_process

\* src/src/index.ts:2107: whether the stop goes on to kill the remote process.
KillRequested(s, stop_remote_process) ==
    stop_remote_process /\ s.mode = "long" /\ s.pid # 0

\* The arguments of dev_session_stop: signal defaults to TERM; BOGUS stands
\* for a signal name outside SAFE_SIGNAL_SET.
StopArgs ==
    { [stop_remote_process |-> FALSE, signal |-> "TERM"],
      [stop_remote_process |-> TRUE, signal |-> "TERM"],
      [stop_remote_process |-> TRUE, signal |-> "BOGUS"] }

\* FSWatcher.close()
Closed(w) == IF w = "open" THEN "closed" ELSE "closed twice"

\* A stop that also removes the session from the registry.
StopDeletesSession(sid, stop_remote_process, signal) ==
    /\ sid \in DOMAIN devSessions
    /\ stops[sid].pc = "idle"
    /\ LET s == devSessions[sid]
           c == clearSessionTimers(sid, s)
       IN  /\ devSessions' = [o \in DOMAIN devSessions \ {sid} |-> devSessions[o]]
           /\ timeouts' = c.timeouts
           /\ intervals' = c.intervals
           /\ fsWatchers' = [fsWatchers EXCEPT ![sid] = IF s.watcher THEN Closed(@) ELSE @]
           /\ stops' = [stops EXCEPT ![sid].stop_remote_process = stop_remote_process,
                                     ![sid].signal = signal]
    /\ UNCHANGED <<config, call, cycles, polls, remote>>

\* src/src/index.ts:2071-2143 dev_session_stop, up to the await of the kill
\* command or the return.  assertSignal throws after the session was marked
\* stopped; one stop call is in flight at a time.
Stop(sid, stop_remote_process, signal) ==
    /\ sid \in DOMAIN devSessions
    /\ stops[sid].pc = "idle"
    /\ LET s == devSessions[sid]
           c == clearSessionTimers(sid, [s EXCEPT !.stopRequested = TRUE, !.status = "stopped",
                                                  !.lastOperation = "session stopped"])
           kill == KillRequested(s, stop_remote_process) /\ SignalValid(signal)
       IN  /\ devSessions' = [devSessions EXCEPT ![sid] = [c.s EXCEPT !.watcher = FALSE]]
           /\ timeouts' = c.timeouts
           /\ intervals' = c.intervals
           /\ fsWatchers' = [fsWatchers EXCEPT ![sid] = IF s.watcher THEN Closed(@) ELSE @]
           /\ stops' = [stops EXCEPT ![sid] =
                           [pc |-> IF kill THEN "kill" ELSE "idle",
                            pid |-> IF kill THEN s.pid ELSE 0,
                            stop_remote_process |-> stop_remote_process,
                            signal |-> signal]]
    /\ UNCHANGED <<config, call, cycles, polls, remote>>

\* src/src/index.ts:2109-2125: the kill command returns: the process was
\* signalled (exit 0), it was already gone ("no such process"), or the ssh
\* call failed.
KillDone(sid) ==
    /\ stops[sid].pc = "kill"
    /\ LET pid == stops[sid].pid
       IN  \E res \in (IF pid \in remote.alive
                       THEN {[exitCode |-> 0, gone |-> FALSE]}
                       ELSE {[exitCode |-> 1, gone |-> TRUE]})
                      \cup {[exitCode |-> 255, gone |-> FALSE]} :
              /\ remote' = IF res.exitCode = 0
                           THEN [remote EXCEPT !.alive = @ \ {pid}] ELSE remote
              /\ devSessions' = [devSessions EXCEPT ![sid].isProcessRunning =
                                    Flag(~(res.exitCode = 0 \/ res.gone))]
    /\ stops' = [stops EXCEPT ![sid].pc = "idle", ![sid].pid = 0]
    /\ UNCHANGED <<config, call, cycles, polls, timeouts, intervals, fsWatchers>>

Next ==
    \/ \E sid \in SessionIds, args \in StartArgs : Start(sid, args) /\ UNCHANGED call
    \/ \E sid \in SessionIds, f \in Filenames \cup {<< >>} : WatchEvent(sid, f)
    \/ \E sid \in SessionIds : WatcherError(sid)
    \/ Tick
    \/ \E sid \in SessionIds : DebounceFire(sid)
    \/ \E sid \in SessionIds, inv \in Invokers : SyncDone(sid, inv)
    \/ \E sid \in SessionIds, inv \in Invokers : ShortRunDone(sid, inv)
    \/ \E sid \in SessionIds, inv \in Invokers : CycleLookupDone(sid, inv)
    \/ \E sid \in SessionIds, inv \in Invokers : LaunchDone(sid, inv)
    \/ \E pid \in Pids : ProcessExit(pid)
    \/ \E sid \in SessionIds : PollTick(sid)
    \/ \E sid \in SessionIds, who \in Pollers : PollLookupDone(sid, who)
    \/ \E sid \in SessionIds, who \in Pollers : PollTailDone(sid, who)
    \/ \E sid \in SessionIds, t \in BOOLEAN : Status(sid, t)
    \/ \E sid \in SessionIds, a \in StopArgs : Stop(sid, a.stop_remote_process, a.signal)
    \/ \E sid \in SessionIds : KillDone(sid)

Spec == Init /\ [][Next]_vars

\* ================================================================== claims
InFlight(sid) == {inv \in Invokers : cycles[sid][inv].pc # "idle"}
InFlightNext(sid) == {inv \in Invokers : cycles'[sid][inv].pc # "idle"}
PendingTimeouts(sid) == {t \in timeouts : t.sid = sid}
PendingTimeoutsNext(sid) == {t \in timeouts' : t.sid = sid}

\* A step in which some cycle of the session issues a sync.
SyncStarted(sid) ==
    \E inv \in Invokers : cycles'[sid][inv].pc = "sync" /\ cycles[sid][inv].pc # "sync"

\* A step in which a drain loop goes from the end of one iteration into the next.
IterationRepeated(sid) ==
    \E inv \in Invokers :
        cycles[sid][inv].pc \in {"short", "ps", "launch"} /\ cycles'[sid][inv].pc = "sync"

\* A step in which a timeout of the session is armed, or armed again.
Armed(sid) ==
    \E t2 \in timeouts' :
        /\ t2.sid = sid
        /\ \A t \in timeouts : t.h = t2.h => t.remaining < t2.remaining

\* A step in which a due timeout of the session fires.
Fired(sid) ==
    \E t \in timeouts :
        /\ t.sid = sid
        /\ t.remaining = 0
        /\ \A t2 \in timeouts' : t2.h # t.h
        /\ ~devSessions'[sid].stopRequested

\* A step in which some cycle of the session issues the launch command.
LaunchIssued(sid) ==
    \E inv \in Invokers : cycles'[sid][inv].pc = "launch" /\ cycles[sid][inv].pc # "launch"

\* A step that is a call of dev_session_stop.
StopStep(sid) ==
    /\ stops[sid].pc = "idle"
    /\ \/ stops'[sid] # stops[sid]
       \/ devSessions'[sid].stopRequested # devSessions[sid].stopRequested

\* C1: at most one sync+execute cycle of a session is in flight at any
\* moment, under every interleaving of the start trigger, debounce timer
\* firings and manual triggers.
C1_SingleFlight ==
    \A sid \in DOMAIN devSessions : Cardinality(InFlight(sid)) <= 1

\* C1 witness: a trigger arrived while the start handler's cycle was syncing.
C1_Witness ==
    \E sid \in DOMAIN devSessions :
        /\ cycles[sid]["start"].pc = "sync"
        /\ devSessions[sid].running
        /\ devSessions[sid].pending

\* C2: a trigger that arrives while a cycle is running only sets the pending
\* flag and starts no sync; every iteration of the drain loop starts with the
\* flag cleared and the loop iterates again only when the flag was set, so
\* the triggers of one iteration cause at most one further iteration.
C2_PendingMerges ==
    [][\A sid \in DOMAIN devSessions :
          LET s == devSessions[sid]
              s2 == devSessions'[sid]
          IN  /\ (s.running /\ ~s.pending /\ s2.pending)
                    => (s2 = [s EXCEPT !.pending = TRUE] /\ cycles'[sid] = cycles[sid])
              /\ s.running => InFlightNext(sid) \subseteq InFlight(sid)
              /\ SyncStarted(sid) => ~s2.pending
              /\ IterationRepeated(sid) => s.pending
      ]_vars

\* C2 witness: the start handler's cycle is in a further iteration, which
\* only triggers that arrived during an earlier one can have caused.
C2_Witness ==
    \E sid \in DOMAIN devSessions :
        /\ cycles[sid]["start"].pc = "sync"
        /\ devSessions[sid].syncCount >= 1
        /\ ~devSessions[sid].pending

\* C3: while stop is not requested, a drain loop never ends with the pending
\* flag set: a trigger that arrived during a cycle always gets its extra
\* cycle, whatever the outcome of the cycle it arrived in.
C3_PendingNeverDropped ==
    [][\A sid \in DOMAIN devSessions :
          (devSessions[sid].running /\ ~devSessions'[sid].running)
             => ~(devSessions'[sid].pending /\ ~devSessions'[sid].stopRequested)
      ]_vars

\* C4: once stop is requested for a session no sync is issued for it any
\* more, no changed path is recorded, no debounce timeout is pending and the
\* request is never withdrawn; a drain loop in flight does not iterate again.
C4_NoCycleAfterStop ==
    [][\A sid \in DOMAIN devSessions :
          devSessions[sid].stopRequested
             => /\ ~SyncStarted(sid)
                /\ devSessions'[sid].changedPaths \subseteq devSessions[sid].changedPaths
                /\ PendingTimeoutsNext(sid) = {}
                /\ devSessions'[sid].stopRequested
      ]_vars

\* C4 witness: a drain loop that was in flight at the stop has ended with
\* the pending flag still set.
C4_Witness ==
    \E sid \in DOMAIN devSessions :
        /\ devSessions[sid].stopRequested
        /\ devSessions[sid].pending
        /\ ~devSessions[sid].running
        /\ InFlight(sid) = {}
        /\ devSessions[sid].syncCount >= 1

\* C5: a session has at most one debounce timeout pending; every watch
\* event that schedules a cycle leaves exactly that one timeout, set to the
\* full debounce interval, so a burst of events ends in one firing, a full
\* interval after its last event; a timer's cycle starts only by a due
\* timeout firing, and a firing on an idle session that is not stopped
\* starts exactly one cycle.
C5_Debounce ==
    /\ [](\A sid \in SessionIds : Cardinality(PendingTimeouts(sid)) <= 1)
    /\ [][\A sid \in DOMAIN devSessions :
             LET s == devSessions[sid]
                 s2 == devSessions'[sid]
             IN  /\ Armed(sid)
                       => /\ Cardinality(PendingTimeoutsNext(sid)) = 1
                          /\ \A t \in PendingTimeoutsNext(sid) :
                                t.remaining = s.debounceMs /\ t.h = s2.debounceTimer
                 /\ (cycles[sid]["timer"].pc = "idle" /\ cycles'[sid]["timer"].pc # "idle")
                       => Fired(sid)
                 /\ (Fired(sid) /\ ~s.running)
                       => /\ s2.lastOperation = "sync"
                          /\ s2.syncCount = s.syncCount
                          /\ config = "ok" => /\ InFlightNext(sid) = {"timer"}
                                              /\ cycles'[sid]["timer"].pc = "sync"
         ]_vars

\* C5 witness: after a change was recorded the debounce timeout has fired
\* and its cycle is syncing.
C5_Witness ==
    \E sid \in DOMAIN devSessions :
        /\ cycles[sid]["timer"].pc = "sync"
        /\ devSessions[sid].changedPaths # {}
        /\ PendingTimeouts(sid) = {}

\* C6: from the moment stop is requested, also while the stop call awaits
\* the kill command and while a cycle is in flight, the session has no
\* pending debounce timeout, no live poll interval and no open watcher, and
\* refers to none; no watcher is ever closed twice.
C6_StopReleases ==
    \A sid \in DOMAIN devSessions :
        /\ fsWatchers[sid] # "closed twice"
        /\ devSessions[sid].stopRequested
              => /\ PendingTimeouts(sid) = {}
                 /\ sid \notin intervals
                 /\ fsWatchers[sid] # "open"
                 /\ devSessions[sid].debounceTimer = 0
                 /\ ~devSessions[sid].pollingTimer
                 /\ ~devSessions[sid].watcher

\* C6 witness: a second stop call awaits its kill command while a cycle is
\* still in flight; the watcher was closed by the first.
C6_Witness ==
    \E sid \in DOMAIN devSessions :
        /\ stops[sid].pc = "kill"
        /\ InFlight(sid) # {}
        /\ fsWatchers[sid] = "closed"
        /\ devSessions[sid].isProcessRunning = "no"

C8_LaunchOnlyWhenDead ==
    [][\A sid \in DOMAIN devSessions :
          LaunchIssued(sid)
             => (devSessions[sid].pid = 0 \/ devSessions[sid].pid \notin remote.alive)
      ]_vars

\* C9: a cycle reaches the short command or the ensure-background-task step
\* only from a sync of the same iteration that reported success; a sync that
\* fails is counted, sets status error and the last error, ends the drain
\* loop, and runs or launches nothing.
C9_SyncFirst ==
    [][\A sid \in DOMAIN devSessions : \A inv \in Invokers :
          LET s == devSessions[sid]
              s2 == devSessions'[sid]
              pc == cycles[sid][inv].pc
              pc2 == cycles'[sid][inv].pc
          IN  /\ (pc2 \in {"short", "ps", "launch"} /\ pc2 # pc)
                    => \/ /\ pc = "sync"
                          /\ s2.lastSyncResult # << >>
                          /\ s2.lastSyncResult[1].success
                          /\ s2.syncCount = s.syncCount + 1
                       \/ pc = "ps" /\ pc2 = "launch"
              /\ (pc = "sync" /\ pc2 # "sync" /\ ~s2.lastSyncResult[1].success)
                    => /\ pc2 = "idle"
                       /\ s2.status = "error"
                       /\ s2.lastError = "sync failed"
                       /\ ~s2.running
                       /\ s2.syncCount = s.syncCount + 1
                       /\ s2.runCount = s.runCount
                       /\ s2.pid = s.pid
                       /\ remote' = remote
      ]_vars

\* C9 witness: the first sync failed: the loop has ended in error and nothing ran.
C9_Witness ==
    \E sid \in DOMAIN devSessions :
        /\ devSessions[sid].lastError = "sync failed"
        /\ devSessions[sid].status = "error"
        /\ devSessions[sid].syncCount = 1
        /\ devSessions[sid].runCount = 0
        /\ InFlight(sid) = {}

\* A step in which a cycle of the session ends by an exception: its sync
\* failed, or its launch failed.
CycleThrew(sid) ==
    \E inv \in Invokers :
        /\ cycles'[sid][inv].pc = "idle"
        /\ \/ cycles[sid][inv].pc = "sync"
           \/ cycles[sid][inv].pc = "launch" /\ remote'.alive = remote.alive

\* C10: the running flag is set exactly while a cycle is in flight, so it is
\* false whenever a cycle has ended, however it ended; a cycle that ends by
\* an exception leaves status error; and on a session that is not stopped
\* the next trigger starts a cycle, which sets the status to running and
\* clears the last error.
C10_CycleAlwaysEnds ==
    /\ [](\A sid \in DOMAIN devSessions : devSessions[sid].running <=> InFlight(sid) # {})
    /\ [][\A sid \in DOMAIN devSessions :
             LET s == devSessions[sid]
                 s2 == devSessions'[sid]
             IN  /\ CycleThrew(sid)
                       => (s2.status = "error" /\ s2.lastError # None /\ ~s2.running)
                 /\ (InFlight(sid) = {} /\ InFlightNext(sid) # {})
                       => (s2.status = "running" /\ s2.lastError = None /\ s2.running)
                 /\ (Fired(sid) /\ InFlight(sid) = {} /\ config = "ok")
                       => InFlightNext(sid) # {}
         ]_vars

\* C10 witness: after a cycle that ended in a failed sync, a further trigger
\* has started a new cycle: status is running again and the error is cleared.
C10_Witness ==
    \E sid \in DOMAIN devSessions : \E inv \in Invokers :
        /\ cycles[sid][inv].pc = "sync"
        /\ devSessions[sid].lastSyncResult # << >>
        /\ ~devSessions[sid].lastSyncResult[1].success
        /\ devSessions[sid].status = "running"
        /\ devSessions[sid].lastError = None

\* A step in which the short command awaited by invoker inv's cycle returns.
ShortRunReturned(sid, inv) ==
    /\ cycles[sid][inv].pc = "short"
    /\ devSessions'[sid].runCount # devSessions[sid].runCount

\* C11: in short mode a nonzero exit code of the command is a soft
\* diagnostic: it is stored in the last short-run result, the run is counted,
\* the status does not become error, and the iteration completes: the drain
\* loop repeats when the pending flag is set and stop is not requested, and
\* otherwise the cycle ends with the running flag cleared and the exit code
\* reported in last_error.
C11_ShortRunSoftFailure ==
    [][\A sid \in DOMAIN devSessions : \A inv \in Invokers :
          LET s == devSessions[sid]
              s2 == devSessions'[sid]
          IN  (ShortRunReturned(sid, inv) /\ s2.lastShortRun # <<0>>)
                 => /\ s2.lastShortRun = <<1>>
                    /\ s2.runCount = s.runCount + 1
                    /\ s2.status = "error" => s.status = "error"
                    /\ IF s.pending /\ ~s.stopRequested
                       THEN cycles'[sid][inv].pc = "sync" /\ s2.running /\ ~s2.pending
                       ELSE /\ cycles'[sid][inv].pc = "idle"
                            /\ ~s2.running
                            /\ s2.lastError = "short command failed"
      ]_vars

\* C11 witness: the start handler's cycle is in its second sync after a short
\* run that exited nonzero: the loop repeated for a pending trigger.
C11_Witness ==
    \E sid \in DOMAIN devSessions :
        /\ cycles[sid]["start"].pc = "sync"
        /\ devSessions[sid].lastShortRun = <<1>>
        /\ devSessions[sid].runCount = 1
        /\ devSessions[sid].syncCount = 1
        /\ devSessions[sid].status = "running"

\* A step of pollLongTask alone on the session: the interval callback, a
\* status call without trigger_now, or the return of the poll's lookup or tail.
PollStep(sid) ==
    \/ PollTick(sid)
    \/ Status(sid, FALSE)
    \/ \E who \in Pollers : PollLookupDone(sid, who) \/ PollTailDone(sid, who)

\* C12: a step of pollLongTask changes, of the session, only the liveness
\* flag, the last process info and the last log tail; pid, log file,
\* sync_count, run_count, the changed paths and the running and pending
\* flags stay as they are; it starts no cycle and no sync, and launches
\* nothing on the remote host.
C12_PollFrame ==
    [][\A sid \in DOMAIN devSessions :
          PollStep(sid)
             => LET s == devSessions[sid]
                    s2 == devSessions'[sid]
                IN  /\ [s2 EXCEPT !.isProcessRunning = s.isProcessRunning,
                                  !.lastProcessInfo = s.lastProcessInfo,
                                  !.lastTailLog = s.lastTailLog] = s
                    /\ s2.pid = s.pid /\ s2.logFile = s.logFile
                    /\ s2.syncCount = s.syncCount /\ s2.runCount = s.runCount
                    /\ s2.changedPaths = s.changedPaths
                    /\ s2.running = s.running /\ s2.pending = s.pending
                    /\ cycles' = cycles
                    /\ remote' = remote
      ]_vars

\* C12 witness: a poll has found the recorded process dead and tailed its
\* log; the pid is still recorded, no cycle is in flight and nothing was
\* relaunched.
C12_Witness ==
    \E sid \in DOMAIN devSessions :
        /\ devSessions[sid].isProcessRunning = "no"
        /\ devSessions[sid].status = "running"
        /\ devSessions[sid].pid # 0
        /\ devSessions[sid].pid \notin remote.alive
        /\ devSessions[sid].lastTailLog # 0
        /\ devSessions[sid].runCount = 1
        /\ remote.spawned = 1
        /\ InFlight(sid) = {}

\* ============================================ dev_session_start on its own
\* The arguments a caller may give, valid or not.
StartArgsAll ==
    [ session_name : {NameDev, NameSpaced, NameEmpty},
      mode : {"short", "long", "LONG", "fast"}, method : {"auto", "AUTO", "ftp"},
      exclude : {ExcludeLog}, debounce_ms : {0, 2},
      short_command : {"", "make test"}, long_command : {"", "make serve"},
      local_path_exists : BOOLEAN ]

\* src/src/index.ts:1898-2034: a call of dev_session_start with any
\* arguments: a failed validation throws out of the handler before the
\* session is built; `call` records the arguments and whether the call was
\* rejected.
StartCall(args) ==
    /\ call' = <<[fn |-> "dev_session_start", args |-> args,
                  rejected |-> ~StartArgsValid(args)]>>
    /\ IF StartArgsValid(args)
       THEN \E sid \in SessionIds \ DOMAIN devSessions : Start(sid, args)
       ELSE UNCHANGED <<config, devSessions, cycles, polls, stops, timeouts, intervals,
                        fsWatchers, remote>>

StartNext == \E args \in StartArgsAll : StartCall(args)

StartSpec == Init /\ [][StartNext]_vars

\* The arguments the claim names as failing validation.
FailsValidation(a) ==
    \/ \E i \in 1..Len(a.session_name) : a.session_name[i] = " "
    \/ a.session_name = << >>
    \/ ToLowerCase(a.mode) \notin {"short", "long"}
    \/ ToLowerCase(a.method) \notin {"auto", "rsync", "scp"}
    \/ ToLowerCase(a.mode) = "short" /\ a.short_command = ""
    \/ ToLowerCase(a.mode) = "long" /\ a.long_command = ""
    \/ a.debounce_ms <= 0

\* C13: a dev_session_start call whose session name contains a space or is
\* empty, whose mode or method is invalid, whose command for the mode is
\* missing or whose debounce_ms is not positive is rejected, and a rejected
\* call adds no session to the registry, creates no watcher, timeout or
\* interval, starts no cycle or poll and issues nothing to the remote host.
C13_StartValidation ==
    [][call' # call
          => /\ FailsValidation(call'[1].args) => call'[1].rejected
             /\ call'[1].rejected
                   => UNCHANGED <<devSessions, cycles, polls, stops, timeouts, intervals,
                                  fsWatchers, remote>>
      ]_vars

\* C13 witness: a call with a session name containing a space was rejected;
\* the registry is empty and no watcher, timer or process exists.
C13_Witness ==
    /\ call # << >>
    /\ call[1].rejected
    /\ call[1].args.session_name = NameSpaced
    /\ DOMAIN devSessions = {}
    /\ \A sid \in SessionIds : fsWatchers[sid] = "none"
    /\ timeouts = {} /\ intervals = {}
    /\ remote.spawned = 0

\* C14: no step removes a session from the registry; a call of
\* dev_session_stop leaves the session registered, marked stopped, and a
\* session whose watcher was closed by a stop is still there for
\* dev_session_status to report.
C14_StopKeepsSession ==
    /\ [](\A sid \in SessionIds :
             fsWatchers[sid] # "none" => sid \in DOMAIN devSessions)
    /\ [][\A sid \in DOMAIN devSessions :
             /\ sid \in DOMAIN devSessions'
             /\ (\E a \in StopArgs : Stop(sid, a.stop_remote_process, a.signal))
                   => /\ devSessions'[sid].stopRequested
                      /\ devSessions'[sid].status = "stopped"
                      /\ devSessions'[sid].syncCount = devSessions[sid].syncCount
         ]_vars

\* C14 witness: a session that ran a sync and was then stopped: its watcher
\* is closed and its record, with the sync counted, is still registered.
C14_Witness ==
    \E sid \in DOMAIN devSessions :
        /\ devSessions[sid].stopRequested
        /\ devSessions[sid].status = "stopped"
        /\ devSessions[sid].syncCount >= 1
        /\ fsWatchers[sid] = "closed"
        /\ InFlight(sid) = {}
        /\ stops[sid].pc = "idle"

\* C15: a dev_session_status call with trigger_now on a session that is not
\* stopped begins a cycle of its own, whose end it awaits before it takes
\* the snapshot: the call is suspended in the sync of that cycle, or that
\* cycle has already failed before its first await; this also when another
\* cycle of the session is in flight at the time of the call.
C15_TriggerNowRunsCycle ==
    [][\A sid \in DOMAIN devSessions :
          (Status(sid, TRUE) /\ ~devSessions[sid].stopRequested)
             => \/ cycles'[sid]["manual"].pc = "sync"
                \/ /\ devSessions'[sid].status = "error"
                   /\ devSessions'[sid].lastError = "config"
                   /\ devSessions'[sid].lastOperation = "sync"
      ]_vars

\* ===================================================== two sessions at once
\* Two sessions share the registry, the timers and the remote host: one in
\* long mode, one in short mode.  Together they complete at most MaxSyncs
\* syncs.
PairIds == {"s1", "s2"}
LongId == "s1"
ShortId == "s2"

PairStartArgs(sid) ==
    {a \in StartArgs : a.local_path_exists /\ a.mode = (IF sid = LongId THEN "long" ELSE "short")}

\* The syncs the two sessions have completed together.
PairSyncs(sessions) ==
    (IF LongId \in DOMAIN sessions THEN sessions[LongId].syncCount ELSE 0)
    + (IF ShortId \in DOMAIN sessions THEN sessions[ShortId].syncCount ELSE 0)

PairInit ==
    /\ config = "ok"
    /\ devSessions = [sid \in {} |-> 0]
    /\ cycles = [sid \in PairIds |-> [i \in Invokers |-> IdleCycle]]
    /\ polls = [sid \in PairIds |-> [p \in Pollers |-> IdlePoll]]
    /\ stops = [sid \in PairIds |->
                   [pc |-> "idle", pid |-> 0, stop_remote_process |-> FALSE,
                    signal |-> "TERM"]]
    /\ timeouts = {}
    /\ intervals = {}
    /\ fsWatchers = [sid \in PairIds |-> "none"]
    /\ remote = [alive |-> {}, spawned |-> 0, output |-> << >>]
    /\ call = << >>

PairNext ==
    \/ \E sid \in PairIds : \E args \in PairStartArgs(sid) : Start(sid, args) /\ UNCHANGED call
    \/ WatchEvent(ShortId, FileA)
    \/ Tick
    \/ DebounceFire(ShortId)
    \/ \E sid \in PairIds, inv \in Invokers :
          PairSyncs(devSessions) < MaxSyncs /\ SyncDone(sid, inv)
    \/ \E inv \in Invokers : ShortRunDone(ShortId, inv)
    \/ \E inv \in Invokers : CycleLookupDone(LongId, inv)
    \/ \E inv \in Invokers : LaunchDone(LongId, inv)
    \/ PollTick(LongId)
    \/ \E who \in Pollers : PollLookupDone(LongId, who)
    \/ \E who \in Pollers : PollTailDone(LongId, who)
    \/ \E sid \in PairIds : Status(sid, TRUE)
    \/ \E sid \in PairIds : Stop(sid, FALSE, "TERM")

PairSpec == PairInit /\ [][PairNext]_vars

\* Everything the program holds for session o.
SessionView(o) ==
    << IF o \in DOMAIN devSessions THEN <<devSessions[o]>> ELSE << >>,
       cycles[o], polls[o], stops[o], fsWatchers[o],
       {t \in timeouts : t.sid = o}, o \in intervals >>

\* C16: sessions are independent: every step other than the passing of time
\* is an operation on one session (its start, a watch event, a debounce
\* firing, a segment of a cycle, a poll, a status or a stop call) and leaves
\* everything held for the other session (its record, its cycles and polls
\* in flight, its stop call, its watcher, its timeouts and its poll
\* interval) exactly as it was.
C16_SessionsIndependent ==
    [][\/ Tick
       \/ \E sid \in PairIds : \A o \in PairIds \ {sid} : SessionView(o)' = SessionView(o)
      ]_vars

\* C16 witness: the long session has completed a sync and is launching its
\* task while the short session, with a debounce timeout pending, is in the
\* sync of a cycle.
C16_Witness ==
    /\ DOMAIN devSessions = PairIds
    /\ devSessions[LongId].syncCount = 1
    /\ cycles[LongId]["start"].pc = "launch"
    /\ cycles[ShortId]["start"].pc = "sync"
    /\ \E t \in timeouts : t.sid = ShortId
    /\ LongId \in intervals

\* ============================================== performRemoteSync on its own
\* Every combination of method, subprocess outcomes and local path.
AllSyncEnvs ==
    [ rsyncExit : {0, 12, 127},
      rsyncOutput : {"", "rsync error: permission denied"} \cup UnavailableOutputs,
      mkdirExit : {0, 1}, scpExit : {0, 1},
      local : {"file", "dir", "emptydir", "missing"} ]

SyncMethods == {"auto", "rsync", "scp"}

\* A call of performRemoteSync is made with some method in some environment.
SyncInit ==
    /\ config = "ok"
    /\ devSessions = [sid \in {} |-> 0]
    /\ cycles = [sid \in SessionIds |-> [i \in Invokers |-> IdleCycle]]
    /\ polls = [sid \in SessionIds |-> [p \in Pollers |-> IdlePoll]]
    /\ stops = [sid \in SessionIds |->
                   [pc |-> "idle", pid |-> 0, stop_remote_process |-> FALSE,
                    signal |-> "TERM"]]
    /\ timeouts = {}
    /\ intervals = {}
    /\ fsWatchers = [sid \in SessionIds |-> "none"]
    /\ remote = [alive |-> {}, spawned |-> 0, output |-> << >>]
    /\ \E method \in SyncMethods, env \in AllSyncEnvs :
          call = <<[fn |-> "performRemoteSync", pc |-> "called", method |-> method,
                    env |-> env]>>

\* src/src/index.ts:408-519: the call returns.
SyncReturn ==
    /\ call[1].pc = "called"
    /\ LET r == performRemoteSync(call[1].method, call[1].env)
       IN  call' = <<[fn |-> "performRemoteSync", pc |-> "returned",
                      method |-> call[1].method, env |-> call[1].env,
                      result |-> r.result, invoked |-> r.invoked]>>
    /\ UNCHANGED <<config, devSessions, cycles, polls, stops, timeouts, intervals,
                   fsWatchers, remote>>

SyncNext == SyncReturn

SyncSpec == SyncInit /\ [][SyncNext]_vars

Returned == call # << >> /\ call[1].pc = "returned"
Ran(program) == \E i \in 1..Len(call[1].invoked) : call[1].invoked[i] = program

\* The rsync failures the claims call "unavailable".
ClassifiedUnavailable(env) ==
    \/ env.rsyncExit = 127
    \/ env.rsyncOutput \in { "bash: rsync: command not found", "Failed to exec rsync",
                             "ssh: remote command not found" }

\* C17: with method auto, an rsync that exits 0 gives method rsync, no
\* fallback, no rsync_error and no scp; an rsync that fails as unavailable
\* gives method scp, fallback_used, rsync_error equal to rsync's output, and
\* success and exit code according to scp when scp ran.
C17_AutoSync ==
    (Returned /\ call[1].method = "auto")
       => LET env == call[1].env
              res == call[1].result
          IN  /\ env.rsyncExit = 0
                    => /\ res.method = "rsync" /\ res.success /\ res.exit_code = 0
                       /\ ~res.fallback_used /\ res.rsync_error = None
                       /\ ~Ran("scp") /\ ~Ran("mkdir")
              /\ (env.rsyncExit # 0 /\ ClassifiedUnavailable(env))
                    => /\ res.method = "scp" /\ res.fallback_used
                       /\ res.rsync_error = env.rsyncOutput
                       /\ Ran("rsync")
                       /\ res.success = (res.exit_code = 0)
                       /\ Ran("scp") => res.exit_code = env.scpExit

\* C17 witness: rsync printed "command not found" with exit code 12 and the
\* sync fell back to an scp that failed.
C17_Witness ==
    /\ Returned
    /\ call[1].method = "auto"
    /\ call[1].env.rsyncExit = 12
    /\ call[1].env.rsyncOutput = "bash: rsync: command not found"
    /\ call[1].result.fallback_used
    /\ ~call[1].result.success
    /\ Ran("scp")

\* C18: with method scp, rsync is never run and the result reports method
\* scp, no fallback and no rsync_error, whatever rsync would have done and
\* however the transfer ends.
C18_ForcedScp ==
    (Returned /\ call[1].method = "scp")
       => /\ ~Ran("rsync")
          /\ call[1].result.method = "scp"
          /\ ~call[1].result.fallback_used
          /\ call[1].result.rsync_error = None

\* C18 witness: a forced scp that failed where rsync would have succeeded.
C18_Witness ==
    /\ Returned
    /\ call[1].method = "scp"
    /\ call[1].env.rsyncExit = 0
    /\ call[1].env.scpExit = 1
    /\ ~call[1].result.success
    /\ Ran("scp")

C20_EmptySources ==
    (/\ Returned
     /\ call[1].env.local = "emptydir"
     /\ call[1].method = "scp" \/ call[1].result.fallback_used)
       => /\ ~Ran("scp")
          /\ call[1].result.success
          /\ call[1].result.exit_code = 0
          /\ call[1].result.method = "scp"

\* C20 witness: a forced scp of an empty directory in an environment where
\* scp would have failed: only the remote mkdir ran.
C20_Witness ==
    /\ Returned
    /\ call[1].method = "scp"
    /\ call[1].env.local = "emptydir"
    /\ call[1].env.scpExit = 1
    /\ call[1].invoked = <<"mkdir">>
    /\ call[1].result.success

\* ============================================== shouldIgnorePath on its own
\* Relative paths a watch event may carry.
PathNodeModules == <<"n", "o", "d", "e", "_", "m", "o", "d", "u", "l", "e", "s">>
PathNodeModulesFirst == <<"n", "o", "d", "e", "_", "m", "o", "d", "u", "l", "e", "s", "/", "x", ".", "j", "s">>
PathNodeModulesInner == <<"a", "/", "n", "o", "d", "e", "_", "m", "o", "d", "u", "l", "e", "s", "/", "x", ".", "j", "s">>
PathNodeModulesLast == <<"a", "/", "n", "o", "d", "e", "_", "m", "o", "d", "u", "l", "e", "s">>
PathNodeModulesWin == <<"a", "\\", "n", "o", "d", "e", "_", "m", "o", "d", "u", "l", "e", "s", "\\", "x", ".", "j", "s">>
PathNodeModulesLike == <<"n", "o", "d", "e", "_", "m", "o", "d", "u", "l", "e", "s", "x", "/", "y", ".", "j", "s">>
PathRunLog == <<"r", "u", "n", ".", "l", "o", "g">>
PathDirRunLog == <<"d", "i", "r", "/", "r", "u", "n", ".", "l", "o", "g">>
PathRunLogx == <<"r", "u", "n", ".", "l", "o", "g", "x">>
PathNewlineLog == <<"a", "\n", "b", ".", "l", "o", "g">>
PathBuildOut == <<"b", "u", "i", "l", "d", "/", "o", "u", "t">>
PathBuildOutX == <<"b", "u", "i", "l", "d", "/", "o", "u", "t", "/", "x">>
PathBuildOutput == <<"b", "u", "i", "l", "d", "/", "o", "u", "t", "p", "u", "t">>
PathXBuildOut == <<"x", "/", "b", "u", "i", "l", "d", "/", "o", "u", "t">>
PathBuildX == <<"b", "u", "i", "l", "d", "/", "x">>
PathBuildRunLog == <<"b", "u", "i", "l", "d", "/", "r", "u", "n", ".", "l", "o", "g">>
WatchPaths ==
    { PathNodeModules, PathNodeModulesFirst, PathNodeModulesInner, PathNodeModulesLast,
      PathNodeModulesWin, PathNodeModulesLike, PathRunLog, PathDirRunLog,
      PathRunLogx, PathNewlineLog, PathBuildOut, PathBuildOutX,
      PathBuildOutput, PathXBuildOut, PathBuildX, PathBuildRunLog }

\* Exclude patterns a session may be given.
PatNodeModules == <<"n", "o", "d", "e", "_", "m", "o", "d", "u", "l", "e", "s">>
PatStarLog == <<"*", ".", "l", "o", "g">>
PatBuildOut == <<"b", "u", "i", "l", "d", "/", "o", "u", "t">>
PatBuildSlash == <<"b", "u", "i", "l", "d", "/">>
PatBuildStarLog == <<"b", "u", "i", "l", "d", "/", "*", ".", "l", "o", "g">>
PatBuildOutWin == <<"b", "u", "i", "l", "d", "\\", "o", "u", "t">>
ExcludePatterns ==
    { PatNodeModules, PatStarLog, PatBuildOut,
      PatBuildSlash, PatBuildStarLog, PatBuildOutWin }

\* Exclude lists: each pattern alone, and two lists of two patterns.
ExcludeLists ==
    { <<p>> : p \in ExcludePatterns }
        \cup { <<PatNodeModules, PatStarLog>>, <<PatStarLog, PatBuildOut>> }

\* A watch callback is about to test a path against the session's excludes.
IgnoreInit ==
    /\ config = "ok"
    /\ devSessions = [sid \in {} |-> 0]
    /\ cycles = [sid \in SessionIds |-> [i \in Invokers |-> IdleCycle]]
    /\ polls = [sid \in SessionIds |-> [p \in Pollers |-> IdlePoll]]
    /\ stops = [sid \in SessionIds |->
                   [pc |-> "idle", pid |-> 0, stop_remote_process |-> FALSE,
                    signal |-> "TERM"]]
    /\ timeouts = {}
    /\ intervals = {}
    /\ fsWatchers = [sid \in SessionIds |-> "none"]
    /\ remote = [alive |-> {}, spawned |-> 0, output |-> << >>]
    /\ \E path \in WatchPaths, excludes \in ExcludeLists :
           call = <<[fn |-> "shouldIgnorePath", pc |-> "called",
                     relativePath |-> path, excludePatterns |-> excludes,
                     ignored |-> FALSE]>>

IgnoreReturn ==
    /\ call[1].pc = "called"
    /\ call' = <<[call[1] EXCEPT
                    !.pc = "returned",
                    !.ignored = shouldIgnorePath(call[1].relativePath,
                                                 call[1].excludePatterns)]>>
    /\ UNCHANGED <<config, devSessions, cycles, polls, stops, timeouts, intervals,
                   fsWatchers, remote>>

IgnoreNext == IgnoreReturn

IgnoreSpec == IgnoreInit /\ [][IgnoreNext]_vars

\* ---- what the claims about shouldIgnorePath speak of
IgnoreReturned ==
    call # << >> /\ call[1].fn = "shouldIgnorePath" /\ call[1].pc = "returned"
ListedPatterns ==
    {normalizeWatchPath(call[1].excludePatterns[i]) : i \in 1..Len(call[1].excludePatterns)}
ChangedPath == normalizeWatchPath(call[1].relativePath)

\* The segments of a path: the parts between its separators.
RECURSIVE Segments(_)
Segments(str) ==
    LET cuts == {i \in 1..Len(str) : str[i] = Slash} IN
    IF cuts = {} THEN <<str>>
    ELSE LET first == CHOOSE i \in cuts : \A j \in cuts : i <= j
         IN  <<SubSeq(str, 1, first - 1)>> \o Segments(SubSeq(str, first + 1, Len(str)))
HasSegment(str, name) == \E i \in 1..Len(Segments(str)) : Segments(str)[i] = name
PlainName(p) == ~Includes(p, Star) /\ ~Includes(p, Slash)

\* C21: an exclude pattern with no wildcard and no separator ignores every
\* changed path that has the pattern as one of its segments, the first
\* segment included.
C21_SegmentIgnored ==
    IgnoreReturned =>
        \A p \in ListedPatterns :
            (PlainName(p) /\ HasSegment(ChangedPath, p)) => call[1].ignored


\* What a glob pattern matches when * stands for a run of characters (any
\* characters when spanning, no line terminator otherwise) and every other
\* character for itself, the whole string being matched.
RECURSIVE GlobMatch(_, _, _)
GlobMatch(pattern, str, spanning) ==
    IF pattern = << >> THEN str = << >>
    ELSE IF Head(pattern) # Star
         THEN str # << >> /\ Head(str) = Head(pattern)
              /\ GlobMatch(Tail(pattern), Tail(str), spanning)
         ELSE \/ GlobMatch(Tail(pattern), str, spanning)
              \/ /\ str # << >>
                 /\ spanning \/ Head(str) \notin LineTerminators
                 /\ GlobMatch(pattern, Tail(str), spanning)
LastSegment(str) == Segments(str)[Len(Segments(str))]
GlobTarget(p) == IF Includes(p, Slash) THEN ChangedPath ELSE LastSegment(ChangedPath)
OneWildcard ==
    /\ IgnoreReturned
    /\ Len(call[1].excludePatterns) = 1
    /\ Includes(call[1].excludePatterns[1], Star)
StarLogExamples ==
    (IgnoreReturned /\ call[1].excludePatterns = <<PatStarLog>>) =>
        /\ call[1].relativePath \in {PathRunLog, PathDirRunLog} => call[1].ignored
        /\ call[1].relativePath = PathRunLogx => ~call[1].ignored

\* C22 as stated: a pattern with * is an anchored expression whose * stands
\* for any string, possibly empty, and whose other characters are literal,
\* matched against the basename when the pattern has no separator and against
\* the whole normalized path when it has one; *.log ignores run.log and
\* dir/run.log and not run.logx.
C22_StarAnyString ==
    /\ OneWildcard =>
           LET p == normalizeWatchPath(call[1].excludePatterns[1])
           IN  call[1].ignored = GlobMatch(p, GlobTarget(p), TRUE)
    /\ StarLogExamples

\* C22 amended: as above, with * standing for any string, possibly empty,
\* that holds no line terminator.
C22_StarAnyLine ==
    /\ OneWildcard =>
           LET p == normalizeWatchPath(call[1].excludePatterns[1])
           IN  call[1].ignored = GlobMatch(p, GlobTarget(p), FALSE)
    /\ StarLogExamples

C22_Witness ==
    /\ OneWildcard
    /\ call[1].excludePatterns = <<PatStarLog>>
    /\ call[1].relativePath = PathDirRunLog
    /\ call[1].ignored


\* The directory a pattern names, as its non-empty segments, and the paths
\* that lie under it.
DirSegments(p) == SelectSeq(Segments(p), LAMBDA seg : seg # << >>)
LiesUnder(str, p) ==
    /\ Len(Segments(str)) > Len(DirSegments(p))
    /\ SubSeq(Segments(str), 1, Len(DirSegments(p))) = DirSegments(p)
OnePathPattern ==
    /\ IgnoreReturned
    /\ Len(call[1].excludePatterns) = 1
    /\ ~Includes(call[1].excludePatterns[1], Star)
    /\ Includes(normalizeWatchPath(call[1].excludePatterns[1]), Slash)

\* C29: an exclude pattern with a separator and no wildcard ignores a changed
\* path exactly when the normalized path equals the pattern or lies under it
\* as a directory; build/out ignores build/out/x, and neither build/output
\* nor x/build/out.
C29_DirectoryPrefix ==
    /\ OnePathPattern =>
           LET p == normalizeWatchPath(call[1].excludePatterns[1])
           IN  call[1].ignored <=> (ChangedPath = p \/ LiesUnder(ChangedPath, p))
    /\ (IgnoreReturned /\ call[1].excludePatterns = <<PatBuildOut>>) =>
           /\ call[1].relativePath = PathBuildOutX => call[1].ignored
           /\ call[1].relativePath \in {PathBuildOutput, PathXBuildOut} => ~call[1].ignored


\* ============================================== parseBackgroundPid on its own
\* Lines of the launch output parseBackgroundPid is given at most.
MaxOutputLines == 3

Whitespace == {" ", "\t", "\r", "\n"}
DigitChars == <<"0", "1", "2", "3", "4", "5", "6", "7", "8", "9">>
IsDigit(c) == \E n \in 1..10 : DigitChars[n] = c
DigitValue(c) == (CHOOSE n \in 1..10 : DigitChars[n] = c) - 1
Marker == <<"_", "_", "M", "C", "P", "_", "P", "I", "D", "_", "_">>

\* String.prototype.split("\n")
RECURSIVE SplitLines(_)
SplitLines(str) ==
    LET cuts == {i \in 1..Len(str) : str[i] = "\n"} IN
    IF cuts = {} THEN <<str>>
    ELSE LET first == CHOOSE i \in cuts : \A j \in cuts : i <= j
         IN  <<SubSeq(str, 1, first - 1)>> \o SplitLines(SubSeq(str, first + 1, Len(str)))

RECURSIVE TrimStart(_)
TrimStart(str) ==
    IF str # << >> /\ Head(str) \in Whitespace THEN TrimStart(Tail(str)) ELSE str

RECURSIVE TrimEnd(_)
TrimEnd(str) ==
    IF str # << >> /\ str[Len(str)] \in Whitespace
    THEN TrimEnd(SubSeq(str, 1, Len(str) - 1))
    ELSE str

\* String.prototype.trim
Trim(str) == TrimEnd(TrimStart(str))

RECURSIVE DecimalValue(_)
DecimalValue(digits) ==
    IF digits = << >> THEN 0
    ELSE DecimalValue(SubSeq(digits, 1, Len(digits) - 1)) * 10
             + DigitValue(digits[Len(digits)])

\* parseInt(str, 10): leading whitespace is skipped, a sign is read, then the
\* longest run of digits; what follows is dropped.  << >> is NaN, <<n>> is n.
parseInt(str) ==
    LET s == TrimStart(str)
        signed == s # << >> /\ s[1] \in {"+", "-"}
        body == IF signed THEN Tail(s) ELSE s
        run == CHOOSE k \in 0..Len(body) :
                   /\ \A i \in 1..k : IsDigit(body[i])
                   /\ k < Len(body) => ~IsDigit(body[k + 1])
        magnitude == DecimalValue(SubSeq(body, 1, run))
    IN  IF run = 0 THEN << >>
        ELSE IF signed /\ s[1] = "-" THEN <<0 - magnitude>> ELSE <<magnitude>>

\* /^\d+$/.test(line)
IsDigitsOnly(line) == line # << >> /\ \A i \in 1..Len(line) : IsDigit(line[i])

\* src/src/index.ts:359-362: the trimmed, non-empty lines of the output.
OutputLines(rawOutput) ==
    LET split == SplitLines(rawOutput)
        trimmed == [i \in 1..Len(split) |-> Trim(split[i])]
    IN  SelectSeq(trimmed, LAMBDA line : line # << >>)

\* src/src/index.ts:365-369: the pid of the first line that starts with the
\* marker, 0 when there is no such line or it carries no positive number.
MarkerPid(lines) ==
    LET found == {i \in 1..Len(lines) : StartsWith(lines[i], Marker)} IN
    IF found = {} THEN 0
    ELSE LET marker == lines[CHOOSE i \in found : \A j \in found : i <= j]
             pid == parseInt(SubSeq(marker, Len(Marker) + 1, Len(marker)))
         IN  IF pid # << >> /\ pid[1] > 0 THEN pid[1] ELSE 0

\* A scan of the digit-only lines that takes the first positive one.
FirstDigitsPid(lines) ==
    LET good == {i \in 1..Len(lines) :
                    IsDigitsOnly(lines[i]) /\ parseInt(lines[i])[1] > 0}
    IN  IF good = {} THEN 0
        ELSE parseInt(lines[CHOOSE i \in good : \A j \in good : i <= j])[1]

\* src/src/index.ts:371-376: the digit-only lines are scanned from the last
\* one back, and the first with a positive value is the pid.
LastDigitsPid(lines) ==
    LET good == {i \in 1..Len(lines) :
                    IsDigitsOnly(lines[i]) /\ parseInt(lines[i])[1] > 0}
    IN  IF good = {} THEN 0
        ELSE parseInt(lines[CHOOSE i \in good : \A j \in good : j <= i])[1]

\* src/src/index.ts:358 parseBackgroundPid; 0 is null.
parseBackgroundPid(rawOutput) ==
    LET lines == OutputLines(rawOutput) IN
    IF MarkerPid(lines) > 0 THEN MarkerPid(lines) ELSE LastDigitsPid(lines)

\* Lines a launch may print: a banner, the marker line in several shapes, and
\* lines of digits.
LineBanner == <<"m", "o", "t", "d", " ", "7">>
LineMarker4821 == <<"_", "_", "M", "C", "P", "_", "P", "I", "D", "_", "_", "4", "8", "2", "1">>
LineMarkerEmpty == <<"_", "_", "M", "C", "P", "_", "P", "I", "D", "_", "_">>
LineMarkerZero == <<"_", "_", "M", "C", "P", "_", "P", "I", "D", "_", "_", "0">>
LineMarkerJunk == <<"_", "_", "M", "C", "P", "_", "P", "I", "D", "_", "_", "4", "8", "x">>
Line4821 == <<"4", "8", "2", "1">>
Line77 == <<"7", "7">>
LineZero == <<"0">>
LinePadded == <<" ", "1", "2", " ", "\r">>
LineBlank == <<>>
LineKinds ==
    { LineBanner, LineMarker4821, LineMarkerEmpty, LineMarkerZero,
      LineMarkerJunk, Line4821, Line77, LineZero,
      LinePadded, LineBlank }

RECURSIVE JoinLines(_)
JoinLines(lines) ==
    IF lines = << >> THEN << >>
    ELSE IF Len(lines) = 1 THEN lines[1]
    ELSE lines[1] \o <<"\n">> \o JoinLines(Tail(lines))

RawOutputs ==
    { JoinLines(ls) : ls \in UNION { [1..n -> LineKinds] : n \in 0..MaxOutputLines } }

\* The launch has returned its output and the pid is about to be parsed.
ParseInit ==
    /\ config = "ok"
    /\ devSessions = [sid \in {} |-> 0]
    /\ cycles = [sid \in SessionIds |-> [i \in Invokers |-> IdleCycle]]
    /\ polls = [sid \in SessionIds |-> [p \in Pollers |-> IdlePoll]]
    /\ stops = [sid \in SessionIds |->
                   [pc |-> "idle", pid |-> 0, stop_remote_process |-> FALSE,
                    signal |-> "TERM"]]
    /\ timeouts = {}
    /\ intervals = {}
    /\ fsWatchers = [sid \in SessionIds |-> "none"]
    /\ remote = [alive |-> {}, spawned |-> 0, output |-> << >>]
    /\ \E raw \in RawOutputs :
           call = <<[fn |-> "parseBackgroundPid", pc |-> "called",
                     rawOutput |-> raw, pid |-> 0]>>

ParseReturn ==
    /\ call[1].pc = "called"
    /\ call' = <<[call[1] EXCEPT !.pc = "returned",
                                 !.pid = parseBackgroundPid(call[1].rawOutput)]>>
    /\ UNCHANGED <<config, devSessions, cycles, polls, stops, timeouts, intervals,
                   fsWatchers, remote>>

ParseNext == ParseReturn

ParseSpec == ParseInit /\ [][ParseNext]_vars

\* ---- what the claim about parseBackgroundPid speaks of
ParseReturned ==
    call # << >> /\ call[1].fn = "parseBackgroundPid" /\ call[1].pc = "returned"
ParsedLines == OutputLines(call[1].rawOutput)
MarkerLines == {i \in 1..Len(ParsedLines) : StartsWith(ParsedLines[i], Marker)}
FirstMarkerNumber ==
    LET first == CHOOSE i \in MarkerLines : \A j \in MarkerLines : i <= j
    IN  parseInt(SubSeq(ParsedLines[first], Len(Marker) + 1, Len(ParsedLines[first])))
MarkerGivesPid ==
    MarkerLines # {} /\ FirstMarkerNumber # << >> /\ FirstMarkerNumber[1] > 0
PositiveDigitLines ==
    {i \in 1..Len(ParsedLines) :
        IsDigitsOnly(ParsedLines[i]) /\ DecimalValue(ParsedLines[i]) > 0}

\* C23: parseBackgroundPid returns the positive number of the first line that
\* starts with __MCP_PID__ when that line carries one, whatever lines precede
\* or follow it; otherwise the value of the last line made of digits only
\* with a positive value; otherwise null.  A banner followed by
\* __MCP_PID__4821 gives 4821, and so does a banner followed by 4821.
C23_ParsedPid ==
    ParseReturned =>
        /\ MarkerGivesPid => call[1].pid = FirstMarkerNumber[1]
        /\ (~MarkerGivesPid /\ PositiveDigitLines # {}) =>
               call[1].pid = DecimalValue(ParsedLines[
                   CHOOSE i \in PositiveDigitLines : \A j \in PositiveDigitLines : j <= i])
        /\ (~MarkerGivesPid /\ PositiveDigitLines = {}) => call[1].pid = 0
        /\ call[1].rawOutput \in { JoinLines(<<LineBanner, LineMarker4821>>),
                                   JoinLines(<<LineBanner, Line4821>>) } =>
               call[1].pid = 4821

C23_Witness ==
    /\ ParseReturned
    /\ call[1].rawOutput = JoinLines(<<Line77, LineMarker4821, LineBanner>>)
    /\ call[1].pid = 4821


\* ============================================== the liveness checks on their own
\* Every result a process lookup can hand back: any exit code of ps or of
\* ssh, with a listing of the process or with nothing on stdout.
AllLookupResults == [exitCode : {0, 1, 255}, stdout : {0} \cup Pids]

\* Long-mode sessions that have a recorded process: the states in which a
\* lookup is made.
SessionsWithPid ==
    { [NewSession([session_name |-> NameDev, mode |-> "long", method |-> "auto",
                   exclude |-> ExcludeLog, debounce_ms |-> 2,
                   short_command |-> "make test", long_command |-> "make serve",
                   local_path_exists |-> TRUE])
         EXCEPT !.watcher = TRUE, !.pollingTimer = TRUE, !.running = busy,
                !.lastOperation = IF busy THEN "sync" ELSE "long task started",
                !.syncCount = n, !.runCount = 1, !.lastRunAt = 1, !.pid = pid,
                !.logFile = pid,
                !.lastProcessInfo = IF flag = "yes" THEN pid ELSE 0,
                !.isProcessRunning = flag]
      : busy \in BOOLEAN, n \in 1..MaxSyncs, pid \in Pids, flag \in {"yes", "no"} }

\* A lookup made by maybeStartLongTask or by pollLongTask is about to return.
LookupInit ==
    /\ config = "ok"
    /\ devSessions = [sid \in {} |-> 0]
    /\ cycles = [sid \in SessionIds |-> [i \in Invokers |-> IdleCycle]]
    /\ polls = [sid \in SessionIds |-> [p \in Pollers |-> IdlePoll]]
    /\ stops = [sid \in SessionIds |->
                   [pc |-> "idle", pid |-> 0, stop_remote_process |-> FALSE,
                    signal |-> "TERM"]]
    /\ timeouts = {}
    /\ intervals = {}
    /\ fsWatchers = [sid \in SessionIds |-> "none"]
    /\ remote = [alive |-> {}, spawned |-> 0, output |-> << >>]
    /\ \E fn \in {"maybeStartLongTask", "pollLongTask"}, s \in SessionsWithPid,
          res \in AllLookupResults :
           /\ fn = "maybeStartLongTask" => s.running
           /\ call = <<[fn |-> fn, pc |-> "ps", session |-> s, checkRes |-> res,
                        next |-> "ps"]>>

\* src/src/index.ts:695-697: the lookup of maybeStartLongTask returns.
CycleLookupReturn ==
    /\ call[1].fn = "maybeStartLongTask" /\ call[1].pc = "ps"
    /\ LET r == AfterLookup(call[1].session, call[1].checkRes)
       IN  call' = <<[call[1] EXCEPT !.pc = "done", !.session = r.s, !.next = r.pc]>>
    /\ UNCHANGED <<config, devSessions, cycles, polls, stops, timeouts, intervals,
                   fsWatchers, remote>>

\* src/src/index.ts:729-730: the lookup of pollLongTask returns.
PollLookupReturn ==
    /\ call[1].fn = "pollLongTask" /\ call[1].pc = "ps"
    /\ LET q == PollAfterLookup(call[1].session, call[1].checkRes)
       IN  call' = <<[call[1] EXCEPT !.pc = "done", !.session = q.s, !.next = q.pc]>>
    /\ UNCHANGED <<config, devSessions, cycles, polls, stops, timeouts, intervals,
                   fsWatchers, remote>>

LookupNext == CycleLookupReturn \/ PollLookupReturn

LookupSpec == LookupInit /\ [][LookupNext]_vars

LookupReturned ==
    call # << >> /\ call[1].fn \in {"maybeStartLongTask", "pollLongTask"}
                 /\ call[1].pc = "done"

\* C24: a liveness check, in the poll and in the ensure-running step of a
\* cycle alike, sets is_process_running to true only if the lookup exited 0
\* with output; a lookup with no output always sets it to false.
C24_LivenessFlag ==
    LookupReturned =>
        /\ call[1].session.isProcessRunning = "yes" =>
               (call[1].checkRes.exitCode = 0 /\ call[1].checkRes.stdout # 0)
        /\ call[1].checkRes.stdout = 0 => call[1].session.isProcessRunning = "no"

C24_Witness ==
    /\ LookupReturned
    /\ call[1].fn = "pollLongTask"
    /\ call[1].checkRes = [exitCode |-> 0, stdout |-> 0]
    /\ call[1].session.isProcessRunning = "no"


\* ---- the counters of a short-mode session
SyncReturned(sid) ==
    \E inv \in Invokers : cycles[sid][inv].pc = "sync" /\ cycles'[sid][inv].pc # "sync"
ShortCommandReturned(sid) ==
    \E inv \in Invokers : cycles[sid][inv].pc = "short" /\ cycles'[sid][inv].pc # "short"
ShortCommandIssued(sid) ==
    \E inv \in Invokers : cycles[sid][inv].pc # "short" /\ cycles'[sid][inv].pc = "short"

\* A step in which an iteration of the drain loop begins and ends in the
\* catch block before its sync has run.
IterationThrewBeforeSync(sid) ==
    /\ sid \in DOMAIN devSessions'
    /\ devSessions'[sid].lastError = "config"
    /\ devSessions'[sid].lastOperation = "sync"
    /\ \/ sid \notin DOMAIN devSessions
       \/ DebounceFire(sid) /\ ~devSessions[sid].stopRequested /\ ~devSessions[sid].running

\* What the sync, the command and every other step do to the counters of a
\* short-mode session, and the counters after a first iteration of the start
\* handler's cycle whose command exits 0.
ShortCounters(sid) ==
    IF sid \notin DOMAIN devSessions
    THEN devSessions'[sid].syncCount = 0 /\ devSessions'[sid].runCount = 0
    ELSE LET s == devSessions[sid]
             s2 == devSessions'[sid]
         IN  /\ SyncReturned(sid) =>
                    /\ s2.syncCount = s.syncCount + 1
                    /\ s2.runCount = s.runCount
                    /\ ShortCommandIssued(sid) <=> s2.lastSyncResult[1].success
             /\ ~SyncReturned(sid) => (s2.syncCount = s.syncCount /\ ~ShortCommandIssued(sid))
             /\ ShortCommandReturned(sid) => s2.runCount = s.runCount + 1
             /\ ~ShortCommandReturned(sid) => s2.runCount = s.runCount
             /\ (cycles[sid]["start"].pc = "short" /\ s.runCount = 0
                     /\ ShortCommandReturned(sid) /\ s2.lastShortRun = <<0>>)
                    => (s2.syncCount = 1 /\ s2.runCount = 1)

\* C25 as stated: in short mode every iteration of a cycle adds exactly one
\* to sync_count, whether or not the sync succeeded, and exactly one to
\* run_count if and only if the sync succeeded; after a start whose first
\* iteration syncs and runs a command that exits 0, sync_count = 1,
\* run_count = 1 and the last short-run exit code is 0.
C25_EveryIterationCounts ==
    [][\A sid \in DOMAIN devSessions' :
          devSessions'[sid].mode = "short"
             => (ShortCounters(sid) /\ ~IterationThrewBeforeSync(sid))
      ]_vars

\* C25 amended: in short mode every iteration whose sync returns a result
\* adds exactly one to sync_count, whether or not the sync succeeded, and the
\* command is run, adding exactly one to run_count when it returns, if and
\* only if the sync succeeded; no other step changes the counters; after a
\* start whose first iteration syncs and runs a command that exits 0,
\* sync_count = 1, run_count = 1 and the last short-run exit code is 0.
C25_SyncedIterationCounts ==
    [][\A sid \in DOMAIN devSessions' :
          devSessions'[sid].mode = "short" => ShortCounters(sid)
      ]_vars

C25_Witness ==
    \E sid \in DOMAIN devSessions :
        /\ devSessions[sid].mode = "short"
        /\ cycles[sid]["start"].pc = "idle"
        /\ devSessions[sid].status = "running"
        /\ devSessions[sid].syncCount = 1
        /\ devSessions[sid].runCount = 1
        /\ devSessions[sid].lastShortRun = <<0>>


\* C26: once a long-mode session's log file is assigned, at its first
\* successful launch, it never changes: every process the session launches,
\* the first and every relaunch, writes to the session's log file, and every
\* poll tails that file.
C26_LogFileFixed ==
    \A sid \in DOMAIN devSessions :
        LET s == devSessions[sid] IN
        /\ \A pid \in DOMAIN remote.output : remote.output[pid] = s.logFile
        /\ \A who \in Pollers :
               polls[sid][who].pc = "tail"
                  => (s.logFile # 0 /\ polls[sid][who].log = s.logFile)
        /\ s.lastTailLog # 0 => s.lastTailLog = s.logFile

\* C26 witness: the task was launched, relaunched after it had died, and a
\* poll after the relaunch has tailed the log.
C26_Witness ==
    \E sid \in DOMAIN devSessions :
        /\ Cardinality(DOMAIN remote.output) = 2
        /\ devSessions[sid].pid = 2
        /\ devSessions[sid].lastTailLog = devSessions[sid].logFile
        /\ devSessions[sid].lastProcessInfo = 2


\* ============================================== remote command lines on their own
\* Length of the path values drawn at most.
MaxValueLen == 3

\* Characters a path value is made of: a letter, and the characters a shell
\* gives a meaning to.
ValueChars == {"a", Quote, DoubleQuote, " ", "$", ";", Backslash}
PathValues == UNION { [1..n -> ValueChars] : n \in 0..MaxValueLen }

\* src/src/index.ts:782: the command line of the short run.
ShortRunCommand(remoteWorkingDir, shortCommand) ==
    <<"c", "d", " ">> \o shellQuote(remoteWorkingDir) \o <<" ", "&", "&", " ">> \o shortCommand

\* src/src/index.ts:701-702: the name of a fresh log file.
FreshLogFile(remoteWorkingDir, name, timestamp) ==
    remoteWorkingDir \o <<Slash>> \o name \o <<"_">> \o timestamp \o <<".", "l", "o", "g">>

\* src/src/index.ts:703: the command line of the launch.
LaunchCommand(remoteWorkingDir, longCommand, actualLogFile) ==
    <<"c", "d", " ">> \o shellQuote(remoteWorkingDir) \o <<" ", "&", "&", " ", "n", "o", "h", "u", "p", " ">> \o longCommand
        \o <<" ", ">", " ">> \o shellQuote(actualLogFile)
        \o <<" ", "2", ">", "&", "1", " ", "<", " ", "/", "d", "e", "v", "/", "n", "u", "l", "l", " ", "&", " ", "p", "r", "i", "n", "t", "f", " ", "\"", "_", "_", "M", "C", "P", "_", "P", "I", "D", "_", "_", "%", "s", "\\", "n", "\"", " ", "\"", "$", "!", "\"">>

\* src/src/index.ts:735-740: the command line of the tail.
TailCommand(followSeconds, logLines, logFile) ==
    IF followSeconds # << >>
    THEN <<"i", "f", " ", "c", "o", "m", "m", "a", "n", "d", " ", "-", "v", " ", "t", "i", "m", "e", "o", "u", "t", " ", ">", "/", "d", "e", "v", "/", "n", "u", "l", "l", " ", "2", ">", "&", "1", ";", " ", "t", "h", "e", "n", " ", "t", "i", "m", "e", "o", "u", "t", " ">> \o followSeconds
             \o <<" ", "t", "a", "i", "l", " ", "-", "f", " ", "-", "n", " ">> \o logLines \o <<" ">> \o shellQuote(logFile)
             \o <<" ", "2", ">", "/", "d", "e", "v", "/", "n", "u", "l", "l", " ", "|", "|", " ", "t", "r", "u", "e", ";", " ", "e", "l", "s", "e", " ", "t", "a", "i", "l", " ", "-", "n", " ">> \o logLines
             \o <<" ">> \o shellQuote(logFile) \o <<";", " ", "f", "i">>
    ELSE <<"t", "a", "i", "l", " ", "-", "n", " ">> \o logLines \o <<" ">> \o shellQuote(logFile)

\* src/src/index.ts:461 and 487: the command line that makes the remote directory.
MkdirCommand(remoteMkdirPath) == <<"m", "k", "d", "i", "r", " ", "-", "p", " ">> \o shellQuote(remoteMkdirPath)

ShortCommandText == <<"m", "a", "k", "e", " ", "t", "e", "s", "t">>
LongCommandText == <<"m", "a", "k", "e", " ", "s", "e", "r", "v", "e">>
SessionNameText == <<"d", "e", "v", "-", "1">>
TimestampText == <<"2", "0", "2", "6", "-", "0", "1", "-", "0", "1", "T", "0", "0", "-", "0", "0", "-", "0", "0", "-", "0", "0", "0", "Z">>
LogLinesText == <<"5", "0">>
FollowSecondsText == <<"5">>

CommandSites == {"shellQuote", "short run", "launch", "tail", "tail -f", "mkdir"}

\* src/src/index.ts:175-181, 461, 703, 737-739, 782: the command line a site
\* builds around a path value.
CommandLine(site, value) ==
    CASE site = "shellQuote" -> shellQuote(value)
      [] site = "short run" -> ShortRunCommand(value, ShortCommandText)
      [] site = "launch" ->
             LaunchCommand(value, LongCommandText,
                           FreshLogFile(value, SessionNameText, TimestampText))
      [] site = "tail" -> TailCommand(<< >>, LogLinesText, value)
      [] site = "tail -f" -> TailCommand(FollowSecondsText, LogLinesText, value)
      [] site = "mkdir" -> MkdirCommand(value)

\* A command line is about to be built around a path value.
QuoteInit ==
    /\ config = "ok"
    /\ devSessions = [sid \in {} |-> 0]
    /\ cycles = [sid \in SessionIds |-> [i \in Invokers |-> IdleCycle]]
    /\ polls = [sid \in SessionIds |-> [p \in Pollers |-> IdlePoll]]
    /\ stops = [sid \in SessionIds |->
                   [pc |-> "idle", pid |-> 0, stop_remote_process |-> FALSE,
                    signal |-> "TERM"]]
    /\ timeouts = {}
    /\ intervals = {}
    /\ fsWatchers = [sid \in SessionIds |-> "none"]
    /\ remote = [alive |-> {}, spawned |-> 0, output |-> << >>]
    /\ \E site \in CommandSites, value \in PathValues :
           call = <<[fn |-> "command", pc |-> "called", site |-> site,
                     value |-> value, command |-> << >>]>>

QuoteReturn ==
    /\ call[1].pc = "called"
    /\ call' = <<[call[1] EXCEPT !.pc = "returned",
                                 !.command = CommandLine(call[1].site, call[1].value)]>>
    /\ UNCHANGED <<config, devSessions, cycles, polls, stops, timeouts, intervals,
                   fsWatchers, remote>>

QuoteNext == QuoteReturn

QuoteSpec == QuoteInit /\ [][QuoteNext]_vars

\* ---- how a POSIX shell reads a command line
\* The line is cut into tokens: <<"word", w>> for a word with its quoting
\* removed, <<"op", c>> for a control or redirection character.  An
\* expansion, a glob character or an unterminated quote leaves its mark
\* ("<expand>", "<glob>", "<open>") in the word, which no value contains.
WordToken(w) == <<"word", w>>
OpToken(c) == <<"op", <<c>>>>
Blanks == {" ", "\t"}
OperatorChars == {";", "&", "|", "<", ">", "(", ")", "\n"}
PlainSpecials ==
    {Quote, DoubleQuote, Backslash, "$", "*", "?", "["} \cup Blanks \cup OperatorChars
\* The place of the first character of str that is in specials, Len(str) + 1
\* when there is none.
NextSpecial(str, specials) ==
    CHOOSE i \in 1..(Len(str) + 1) :
        /\ i = Len(str) + 1 \/ str[i] \in specials
        /\ \A j \in 1..(i - 1) : str[j] \notin specials
\* One step reads the characters up to the next one with a meaning in the
\* current quoting mode, and that character.
RECURSIVE ShellTokens(_, _, _, _)
ShellTokens(rest, mode, word, inWord) ==
    LET at == NextSpecial(rest, CASE mode = "single" -> {Quote}
                                  [] mode = "double" -> {DoubleQuote, Backslash, "$"}
                                  [] OTHER -> PlainSpecials)
        grown == word \o SubSeq(rest, 1, at - 1)
        flush == IF inWord \/ at > 1 THEN <<WordToken(grown)>> ELSE << >>
        c == rest[at]
        more == SubSeq(rest, at + 1, Len(rest))
    IN  IF at > Len(rest)
        THEN IF mode = "plain" THEN flush ELSE <<WordToken(grown \o <<"<open>">>)>>
        ELSE CASE mode = "single" -> ShellTokens(more, "plain", grown, TRUE)
               [] mode = "double" /\ c = DoubleQuote ->
                      ShellTokens(more, "plain", grown, TRUE)
               [] mode = "double" /\ c = "$" ->
                      ShellTokens(more, "double", Append(grown, "<expand>"), TRUE)
               [] mode = "double" /\ c = Backslash ->
                      IF more # << >> /\ Head(more) \in {"$", DoubleQuote, Backslash}
                      THEN ShellTokens(Tail(more), "double", Append(grown, Head(more)), TRUE)
                      ELSE ShellTokens(more, "double", Append(grown, c), TRUE)
               [] mode = "plain" /\ c = Quote -> ShellTokens(more, "single", grown, TRUE)
               [] mode = "plain" /\ c = DoubleQuote ->
                      ShellTokens(more, "double", grown, TRUE)
               [] mode = "plain" /\ c = Backslash ->
                      IF more = << >> THEN flush
                      ELSE ShellTokens(Tail(more), "plain", Append(grown, Head(more)), TRUE)
               [] mode = "plain" /\ c \in Blanks ->
                      flush \o ShellTokens(more, "plain", << >>, FALSE)
               [] mode = "plain" /\ c \in OperatorChars ->
                      flush \o <<OpToken(c)>> \o ShellTokens(more, "plain", << >>, FALSE)
               [] mode = "plain" /\ c = "$" ->
                      ShellTokens(more, "plain", Append(grown, "<expand>"), TRUE)
               [] OTHER -> ShellTokens(more, "plain", Append(grown, "<glob>"), TRUE)
ShellRead(line) == ShellTokens(line, "plain", << >>, FALSE)

\* The tokens of a command line built around the harmless value "x", with
\* that value replaced by v wherever it stands: alone, or as the directory
\* of the fresh log file.
HarmlessValue == <<"x">>
WithValue(tokens, v) ==
    [i \in 1..Len(tokens) |->
        IF tokens[i][1] = "word" /\ StartsWith(tokens[i][2], HarmlessValue)
        THEN WordToken(v \o Tail(tokens[i][2]))
        ELSE tokens[i]]
QuoteReturned == call # << >> /\ call[1].fn = "command" /\ call[1].pc = "returned"

\* C27: shellQuote(v) is read by a POSIX shell as exactly one word equal to
\* v, for every v; and in every command line the session logic builds (the
\* short run, the launch, the tail, the mkdir) the remote working directory,
\* the log file and the mkdir target stand as one word each, the rest of the
\* line being read as it is with a harmless value.
C27_QuotedOneWord ==
    QuoteReturned =>
        /\ ShellRead(shellQuote(call[1].value)) = <<WordToken(call[1].value)>>
        /\ ShellRead(call[1].command)
               = WithValue(ShellRead(CommandLine(call[1].site, HarmlessValue)),
                           call[1].value)

C27_Witness ==
    /\ QuoteReturned
    /\ call[1].site = "launch"
    /\ call[1].value = <<Quote, ";", "a">>
    /\ \E i \in 1..Len(ShellRead(call[1].command)) :
           ShellRead(call[1].command)[i] = WordToken(call[1].value)


\* ============================================== watch events, observed
\* The watch layer of a short-mode session, with the last raw event the
\* watcher delivered kept in `call`.
WatchStartArgs == {a \in StartArgs : a.mode = "short" /\ a.local_path_exists}

WatchInit ==
    /\ config = "ok"
    /\ devSessions = [sid \in {} |-> 0]
    /\ cycles = [sid \in SessionIds |-> [i \in Invokers |-> IdleCycle]]
    /\ polls = [sid \in SessionIds |-> [p \in Pollers |-> IdlePoll]]
    /\ stops = [sid \in SessionIds |->
                   [pc |-> "idle", pid |-> 0, stop_remote_process |-> FALSE,
                    signal |-> "TERM"]]
    /\ timeouts = {}
    /\ intervals = {}
    /\ fsWatchers = [sid \in SessionIds |-> "none"]
    /\ remote = [alive |-> {}, spawned |-> 0, output |-> << >>]
    /\ call = << >>

\* src/src/index.ts:815-825: the watcher delivers a raw event.
WatchCall(sid, filename) ==
    /\ WatchCallback(sid, filename)
    /\ call' = <<[fn |-> "watch callback", filename |-> filename]>>

WatchNext ==
    \/ \E sid \in SessionIds : \E args \in WatchStartArgs : Start(sid, args) /\ UNCHANGED call
    \/ \E sid \in SessionIds, f \in Filenames \cup {<< >>} : WatchCall(sid, f)
    \/ Tick
    \/ \E sid \in SessionIds : DebounceFire(sid)
    \/ \E sid \in SessionIds, inv \in Invokers : SyncDone(sid, inv)
    \/ \E sid \in SessionIds, inv \in Invokers : ShortRunDone(sid, inv)
    \/ \E sid \in SessionIds : Stop(sid, FALSE, "TERM")

WatchSpec == WatchInit /\ [][WatchNext]_vars

\* C28: a raw watch event on a session that is not stopped arms the debounce
\* timer exactly when it carries no file name or its normalized path is not
\* ignored: then the path, if any, joins the changed-path set and the
\* session is left with exactly one timeout, the one it refers to, set to
\* the full debounce interval; an event for an ignored path changes neither
\* the session nor the timeouts.
C28_WatchArms ==
    [][\A sid \in DOMAIN devSessions : \A f \in Filenames \cup {<< >>} :
          (WatchCall(sid, f) /\ ~devSessions[sid].stopRequested) =>
              LET s == devSessions[sid]
                  s2 == devSessions'[sid]
                  path == normalizeWatchPath(f)
              IN  IF f = << >> \/ ~shouldIgnorePath(path, s.exclude)
                  THEN /\ s2.changedPaths
                              = s.changedPaths \cup (IF f = << >> THEN {} ELSE {path})
                       /\ \E t \in timeouts' :
                              /\ PendingTimeoutsNext(sid) = {t}
                              /\ t.remaining = s.debounceMs
                              /\ s2.debounceTimer = t.h
                  ELSE devSessions' = devSessions /\ timeouts' = timeouts
      ]_vars

\* C28 witness: an event for an ignored path arrived while the timer armed
\* by an earlier change was running down, and left it running.
C28_Witness ==
    \E sid \in DOMAIN devSessions :
        /\ call = <<[fn |-> "watch callback", filename |-> FileLog]>>
        /\ devSessions[sid].changedPaths = {FileA}
        /\ \E t \in timeouts :
               /\ t.sid = sid
               /\ t.h = devSessions[sid].debounceTimer
               /\ t.remaining < devSessions[sid].debounceMs


\* ============================================== the launch on its own
\* Every result the launch command can hand back: any exit code, with a pid
\* parsed from its output or none (0).
AllLaunchResults == [exitCode : {0, 1, 255}, pid : {0} \cup Pids]

\* Long-mode sessions in the states in which a launch is awaited: the first
\* launch of a session, or a relaunch after the recorded process was found
\* dead; a trigger or a stop may have come in meanwhile.
SessionsLaunching ==
    LET base == [NewSession([session_name |-> NameDev, mode |-> "long", method |-> "auto",
                             exclude |-> ExcludeLog, debounce_ms |-> 2,
                             short_command |-> "make test",
                             long_command |-> "make serve", local_path_exists |-> TRUE])
                   EXCEPT !.watcher = TRUE, !.pollingTimer = TRUE, !.running = TRUE,
                          !.lastOperation = "sync",
                          !.lastSyncResult = <<[success |-> TRUE, method |-> "rsync",
                                                exit_code |-> 0, fallback_used |-> FALSE,
                                                rsync_error |-> FALSE]>>]
    IN  { [base EXCEPT !.syncCount = n, !.pending = p, !.stopRequested = stop,
                       !.status = IF stop THEN "stopped" ELSE "running"]
          : n \in 1..MaxSyncs, p \in BOOLEAN, stop \in BOOLEAN }
        \cup
        { [base EXCEPT !.syncCount = MaxSyncs, !.pending = p, !.stopRequested = stop,
                       !.status = IF stop THEN "stopped" ELSE "running",
                       !.runCount = 1, !.lastRunAt = 1, !.pid = pid, !.logFile = pid,
                       !.isProcessRunning = "no", !.lastProcessInfo = 0]
          : p \in BOOLEAN, stop \in BOOLEAN, pid \in Pids }

\* The launch command of maybeStartLongTask is about to return.
LaunchInit ==
    /\ config = "ok"
    /\ devSessions = [sid \in {} |-> 0]
    /\ cycles = [sid \in SessionIds |-> [i \in Invokers |-> IdleCycle]]
    /\ polls = [sid \in SessionIds |-> [p \in Pollers |-> IdlePoll]]
    /\ stops = [sid \in SessionIds |->
                   [pc |-> "idle", pid |-> 0, stop_remote_process |-> FALSE,
                    signal |-> "TERM"]]
    /\ timeouts = {}
    /\ intervals = {}
    /\ fsWatchers = [sid \in SessionIds |-> "none"]
    /\ remote = [alive |-> {}, spawned |-> 0, output |-> << >>]
    /\ \E s \in SessionsLaunching, res \in AllLaunchResults :
           call = <<[fn |-> "launch", pc |-> "launch", before |-> s, session |-> s,
                     result |-> res, next |-> "launch"]>>

\* src/src/index.ts:705-717 and 794-798: the launch command returns.
LaunchReturn ==
    /\ call[1].pc = "launch"
    /\ LET r == AfterLaunch(call[1].before, call[1].result, remote.spawned + 1)
       IN  call' = <<[call[1] EXCEPT !.pc = "done", !.session = r.s, !.next = r.pc]>>
    /\ UNCHANGED <<config, devSessions, cycles, polls, stops, timeouts, intervals,
                   fsWatchers, remote>>

LaunchNext == LaunchReturn

LaunchSpec == LaunchInit /\ [][LaunchNext]_vars

LaunchReturned == call # << >> /\ call[1].fn = "launch" /\ call[1].pc = "done"
LaunchFailed == call[1].result.exitCode # 0 \/ call[1].result.pid = 0

\* C30: when the launch of the long task fails, because the launch command
\* exits nonzero or because no process id can be parsed from its output, the
\* failure is recorded as the session's error with status error, and the
\* session's pid, log file, run_count and last-run timestamp are as they
\* were before the launch.
C30_LaunchFailureRecorded ==
    (LaunchReturned /\ LaunchFailed) =>
        /\ call[1].session.status = "error"
        /\ call[1].session.lastError = "failed to start long task"
        /\ call[1].session.pid = call[1].before.pid
        /\ call[1].session.logFile = call[1].before.logFile
        /\ call[1].session.runCount = call[1].before.runCount
        /\ call[1].session.lastRunAt = call[1].before.lastRunAt

\* C30 witness: a relaunch whose command exited nonzero although a pid was
\* printed has left the earlier pid and log file recorded.
C30_Witness ==
    /\ LaunchReturned
    /\ call[1].result.exitCode = 255
    /\ call[1].result.pid = 2
    /\ call[1].before.pid = 1
    /\ call[1].session.pid = 1
    /\ call[1].session.status = "error"


\* C31: a recorded changed path leaves the changed-path set only by a sync
\* that completed successfully and began after the path was recorded: a
\* failed sync removes nothing, and the paths recorded while the first sync
\* of a session is in flight are still in the set when that sync ends.
C31_ChangedPathsKept ==
    [][\A sid \in DOMAIN devSessions :
          LET s == devSessions[sid]
              s2 == devSessions'[sid]
          IN  /\ ~(s.changedPaths \subseteq s2.changedPaths)
                    => (SyncReturned(sid) /\ s2.lastSyncResult[1].success)
              /\ (SyncReturned(sid) /\ s.syncCount = 0)
                    => s.changedPaths \subseteq s2.changedPaths
      ]_vars


\* C32: once dev_session_stop has set a session's status to stopped, the
\* status is stopped in every later state, whatever cycle or poll was in
\* flight at the stop and whatever watcher error, status call or stop call
\* comes later.
C32_StoppedStays ==
    [][\A sid \in DOMAIN devSessions :
          devSessions[sid].status = "stopped" => devSessions'[sid].status = "stopped"
      ]_vars


\* C33: once a stop has been requested for a session, no detached remote
\* process is launched for it any more, also when a cycle was still syncing at
\* the time of the stop, and the session records no new process id.
C33_NoLaunchAfterStop ==
    [][\A sid \in DOMAIN devSessions :
          devSessions[sid].stopRequested
              => /\ ~LaunchIssued(sid)
                 /\ (\A inv \in Invokers : cycles[sid][inv].pc # "launch")
                        => devSessions'[sid].pid = devSessions[sid].pid
      ]_vars


\* A step that is a dev_session_stop call rejected by assertSignal: remote
\* termination was asked of a long session with a recorded pid, with a signal
\* outside SAFE_SIGNAL_SET.
StopRejected(sid) ==
    /\ StopStep(sid)
    /\ KillRequested(devSessions[sid], stops'[sid].stop_remote_process)
    /\ ~SignalValid(stops'[sid].signal)


\* C35: a dev_session_stop call rejected with a validation error leaves the
\* session exactly as it was before the call: its record (stop flag, status),
\* its timers and its watcher are unchanged and no remote command is issued.
C35_RejectedStopNoEffect ==
    [][\A sid \in DOMAIN devSessions :
          StopRejected(sid)
              => /\ devSessions'[sid] = devSessions[sid]
                 /\ timeouts' = timeouts
                 /\ intervals' = intervals
                 /\ fsWatchers' = fsWatchers
                 /\ stops'[sid].pc = "idle"
      ]_vars


\* C34: whenever a lookup result is written to a session's liveness flag and
\* last process info, it is the result for the process id the session records
\* at that moment: a lookup issued for an earlier process id never overwrites
\* the liveness flag of a newer recorded id.
C34_LookupForRecordedPid ==
    [][\A sid \in DOMAIN devSessions :
          /\ \A who \in Pollers :
                PollLookupDone(sid, who) => polls[sid][who].pid = devSessions[sid].pid
          /\ \A inv \in Invokers :
                CycleLookupDone(sid, inv) => cycles[sid][inv].pid = devSessions[sid].pid
      ]_vars


\* src/src/index.ts:2019-2033: the reply of dev_session_start, computed from
\* the session when the handler returns.
StartReply(s) == [success |-> s.status # "error", status |-> s.status]

\* A step in which the initial cycle of dev_session_start ends by an
\* exception (its sync or its launch failed, or the config entry is bad).
StartCycleThrew(sid) ==
    /\ sid \in DOMAIN devSessions'
    /\ cycles'[sid]["start"].pc = "idle"
    /\ devSessions'[sid].lastError \in CycleErrors
    /\ \/ sid \notin DOMAIN devSessions
       \/ cycles[sid]["start"].pc # "idle"

\* The start handler is suspended in its own pollLongTask call.
StartAwaitsPoll(sid) == \E k \in Pollers : polls[sid][k].caller = "start"
StartAwaitsPollNext(sid) == \E k \in Pollers : polls'[sid][k].caller = "start"

\* A step in which dev_session_start returns after its initial cycle failed:
\* at the end of the cycle when its poll has nothing to await, else when the
\* awaited poll returns.
FailedStartReplied(sid) ==
    \/ StartCycleThrew(sid) /\ ~StartAwaitsPollNext(sid)
    \/ \E k \in Pollers :
          /\ polls[sid][k].caller = "start"
          /\ polls[sid][k].cycleThrew
          /\ polls'[sid][k].caller # "start"

\* A session whose last cycle failed and that is idle and not stopped.
FailedIdle(sid) ==
    /\ devSessions[sid].status = "error"
    /\ devSessions[sid].lastError \in CycleErrors
    /\ ~devSessions[sid].stopRequested
    /\ InFlight(sid) = {}

\* A failed cycle leaves the session registered with its watcher and, in
\* long mode, its poll interval, unless a stop was requested meanwhile.
FailedStartKeepsSession(sid) ==
    (StartCycleThrew(sid) /\ ~devSessions'[sid].stopRequested)
        => /\ devSessions'[sid].watcher
           /\ fsWatchers'[sid] = "open"
           /\ devSessions'[sid].mode = "long"
                 => (sid \in intervals' /\ devSessions'[sid].pollingTimer)

\* On a session left idle by a failed cycle a manual trigger or a debounce
\* firing runs a new cycle, and a change event arms the debounce timer.
FailedStartRetries(sid) ==
    /\ (sid \in DOMAIN devSessions /\ FailedIdle(sid)
           /\ (Status(sid, TRUE) \/ DebounceFire(sid)))
          => (SyncStarted(sid) \/ config = "bad")
    /\ (sid \in DOMAIN devSessions /\ FailedIdle(sid) /\ WatchEvent(sid, FileA))
          => /\ normalizeWatchPath(FileA) \in devSessions'[sid].changedPaths
             /\ \E t \in timeouts' :
                   t.sid = sid /\ t.remaining = devSessions[sid].debounceMs

\* C36 as stated: when the initial cycle of dev_session_start fails, the call
\* replies success=false with status error, the session stays registered with
\* its watcher and poll interval, and a later trigger runs a new cycle.
C36_FailedStartReported ==
    [][\A sid \in SessionIds :
          /\ FailedStartReplied(sid)
                => StartReply(devSessions'[sid]) = [success |-> FALSE, status |-> "error"]
          /\ FailedStartKeepsSession(sid)
          /\ FailedStartRetries(sid)
      ]_vars

\* C36 amended: when the initial cycle of dev_session_start fails, the status
\* is error at the end of that cycle, and the call replies success=false with
\* status error when it returns at once; while the handler awaits its own
\* poll the error status is changed only by a stop call or by a new cycle.
\* The session stays registered with its watcher and poll interval, and a
\* later trigger runs a new cycle.
C36_FailedStartKept ==
    [][\A sid \in SessionIds :
          /\ StartCycleThrew(sid)
                => StartReply(devSessions'[sid]) = [success |-> FALSE, status |-> "error"]
          /\ (sid \in DOMAIN devSessions /\ StartAwaitsPoll(sid)
                 /\ devSessions[sid].status = "error" /\ devSessions'[sid].status # "error")
                => (devSessions'[sid].status = "stopped" \/ SyncStarted(sid))
          /\ FailedStartKeepsSession(sid)
          /\ FailedStartRetries(sid)
      ]_vars

\* C36 witness: the initial cycle's only sync failed, the session is still
\* watched, and a later trigger's cycle is syncing.
C36_Witness ==
    \E sid \in DOMAIN devSessions :
        /\ cycles[sid]["start"].pc = "idle"
        /\ \E inv \in {"timer", "manual"} : cycles[sid][inv].pc = "sync"
        /\ devSessions[sid].syncCount = 1
        /\ ~devSessions[sid].lastSyncResult[1].success
        /\ devSessions[sid].watcher


\* C37: in every reachable state of every session run_count <= sync_count,
\* since a run or a launch is counted only in an iteration whose sync was
\* counted first; in long mode run_count is the number of launches that
\* succeeded, not the number of cycles or iterations.
C37_RunsWithinSyncs ==
    \A sid \in DOMAIN devSessions :
        LET s == devSessions[sid]
        IN  /\ s.runCount <= s.syncCount
            /\ s.mode = "long" => s.runCount = Cardinality(DOMAIN remote.output)
            /\ s.mode = "short" => remote.spawned = 0

\* C37 witness: a long session that has synced twice and launched once: its
\* second iteration found the task alive.
C37_Witness ==
    \E sid \in DOMAIN devSessions :
        /\ devSessions[sid].mode = "long"
        /\ devSessions[sid].syncCount = 2
        /\ devSessions[sid].runCount = 1
        /\ devSessions[sid].isProcessRunning = "yes"
        /\ InFlight(sid) = {}


\* C38: in every reachable state a session has a recorded process id if and
\* only if it has an assigned log file: both are set together by a launch
\* that succeeded and are never cleared, and a short-mode session has
\* neither; so a pollLongTask call tails a log exactly when it checks a pid.
C38_PidIffLogFile ==
    \A sid \in DOMAIN devSessions :
        LET s == devSessions[sid]
        IN  /\ s.pid # 0 <=> s.logFile # 0
            /\ s.mode = "short" => (s.pid = 0 /\ s.logFile = 0)
            /\ s.mode = "long" => (s.pid # 0 <=> DOMAIN remote.output # {})
            /\ PollEntry(s).pc # "tail"
            /\ PollEntry(s).pc = "ps" => PollTail(s).pc = "tail"
            /\ \A who \in Pollers :
                  polls[sid][who].pc # "idle" => (s.pid # 0 /\ s.logFile # 0)

\* C38 witness: a poll of a long session has checked the recorded pid and is
\* tailing the assigned log file.
C38_Witness ==
    \E sid \in DOMAIN devSessions :
        /\ devSessions[sid].pid # 0
        /\ devSessions[sid].logFile # 0
        /\ devSessions[sid].lastProcessInfo = devSessions[sid].pid
        /\ \E who \in Pollers : polls[sid][who].pc = "tail"

====
